---- MODULE Spec2Model ----
(***************************************************************************)
(* Authentication and authorization core of the issue dashboard:           *)
(* POST /api/auth/{register,login,refresh,logout}, the User model's        *)
(* lockout methods, the in-memory rate limiter, the RBAC gate, the bearer  *)
(* token middleware, and the issue, comment and audit-trail routes.        *)
(*                                                                         *)
(* Every `await` on the database is one atomic step of the request that    *)
(* makes it; the synchronous code between two awaits belongs to the step   *)
(* of the await that precedes it.  Time is the value of Date.now() in ms.  *)
(* The issue, comment and audit-trail routes are served one request at a   *)
(* time: a handler runs from its first statement to its response in one    *)
(* step.                                                                   *)
(***************************************************************************)
EXTENDS Integers, Sequences, FiniteSets, TLC

VARIABLES
    now,            \* Date.now()
    ticks,          \* how many times the clock has advanced (bounds the run)
    users,          \* the users collection, keyed by the unique email
    rateLimitStore, \* the rate limiter's in-memory Map
    nextToken,      \* how many refresh tokens crypto.randomBytes has produced
    req,            \* per request slot: the handler's position and locals
    rotated,        \* history: refresh tokens a refresh has succeeded with
    failStreak,     \* history: failed password checks since the last reset
    gate,           \* the RBAC gate's last call and the handler calls it made
    issues,         \* the issues collection, keyed by _id
    comments,       \* the comments collection, in creation order
    auditLogs,      \* the auditlogs collection, in creation order
    last,           \* the last call of an issue route or of a pure function
    ops             \* how many issue-route calls have run (bounds the run)

\* the collections and call record of the issue routes
dataVars == <<issues, comments, auditLogs, last, ops>>

vars == <<now, ticks, users, rateLimitStore, nextToken, req, rotated,
          failStreak, gate, dataVars>>

----------------------------------------------------------------------------
(* Bounds *)

MaxTicks == 3
MaxTokens == 3
MaxDenied == 1

(* Program constants *)

MAX_LOGIN_ATTEMPTS == 5
LOCKOUT_DURATION == 15 * 60 * 1000
REFRESH_TOKEN_EXPIRES_MS == 7 * 24 * 60 * 60 * 1000
JWT_EXPIRES_MS == 15 * 60 * 1000
RATE_LIMITS_AUTH == [windowMs |-> 15 * 60 * 1000, maxRequests |-> 5]

ROLES == {"USER", "MANAGER", "ADMIN"}

(* An optional value (undefined | v) is the empty or the one-element tuple. *)
Undefined == <<>>
Some(v) == <<v>>
IsSet(o) == o # Undefined
Val(o) == o[1]

\* Math.ceil(a / b) for b > 0
Ceil(a, b) == IF a >= 0 THEN (a + b - 1) \div b ELSE -((-a) \div b)

\* Array.prototype.includes
Includes(s, x) == \E i \in 1..Len(s) : s[i] = x

----------------------------------------------------------------------------
(* Request inputs *)

Emails == {"a@b.com"}
RawEmails == {"a@b.com", "A@B.COM", "nobody@x.org", "not-an-email"}
Passwords == {"Abcdef1!", "wrong"}
\* the x-forwarded-for header, split at ',' (empty: no header)
Forwarded == {<<>>, <<"10.0.0.1", "10.0.0.2">>}
Reqs == {"r1", "r2"}

\* z.string().min(1).email(): the raw string must look like an address
IsEmail(raw) == raw \in {"a@b.com", "A@B.COM", "nobody@x.org"}

\* .toLowerCase().trim()
NormalizeEmail(raw) == IF raw = "A@B.COM" THEN "a@b.com" ELSE raw

\* registerSchema's password rules: length >= 8, upper, lower, digit, special
IsStrongPassword(pw) == pw = "Abcdef1!"

\* bcrypt.hash / bcrypt.compare
BcryptHash(pw) == <<"bcrypt", pw>>
ComparePassword(candidate, hash) == BcryptHash(candidate) = hash

\* crypto.createHash('sha256').update(token).digest('hex')
hashRefreshToken(token) == <<"sha256", token>>

getRefreshTokenExpiry(t) == t + REFRESH_TOKEN_EXPIRES_MS

\* {userId: user._id.toString(), email: user.email, role: user.role}
JWTPayload(doc) == [userId |-> <<"id", doc.email>>, email |-> doc.email,
                    role |-> doc.role]

\* jwt.sign(payload, JWT_SECRET, {expiresIn: '15m', algorithm: 'HS256'});
\* iat and exp are in whole seconds
generateAccessToken(payload, t) ==
    [kind |-> "jwt", payload |-> payload, iat |-> t \div 1000,
     exp |-> (t \div 1000) + (JWT_EXPIRES_MS \div 1000), alg |-> "HS256",
     secret |-> "JWT_SECRET"]

----------------------------------------------------------------------------
(* Errors and responses *)

AppError(message, statusCode, code) ==
    [message |-> message, statusCode |-> statusCode, code |-> code]
AuthenticationError(message) == AppError(message, 401, "AuthenticationError")
AuthorizationError(message) == AppError(message, 403, "AuthorizationError")
ValidationError(message) == AppError(message, 400, "ValidationError")
ConflictError(message) == AppError(message, 409, "ConflictError")
RateLimitError(message) == AppError(message, 429, "RateLimitError")

\* what a response carries besides the envelope: the access token of its
\* body, the refreshToken cookie it sets, the rate-limit headers, and the
\* number of minutes its message states
NoData == [accessToken |-> Undefined, cookie |-> Undefined,
           headers |-> Undefined, minutes |-> Undefined]

\* response.cookies.set('refreshToken', value, {..., maxAge})
SetCookie(value, maxAge) == Some([value |-> value, maxAge |-> maxAge])

errorResponse(error) ==
    [success |-> FALSE, status |-> error.statusCode, code |-> error.code,
     message |-> error.message, data |-> NoData]

successResponse(status, message, data) ==
    [success |-> TRUE, status |-> status, code |-> "OK", message |-> message,
     data |-> data]

NoResponse == [success |-> FALSE, status |-> 0, code |-> "", message |-> "",
               data |-> NoData]

----------------------------------------------------------------------------
(* The User model *)

NoUser ==
    [exists |-> FALSE, email |-> "", password |-> <<>>, role |-> "",
     isActive |-> FALSE, loginAttempts |-> 0, lockUntil |-> Undefined,
     refreshTokens |-> <<>>, v |-> 0]

\* User.create({email, password, ..., role: 'USER', isActive: true}) with the
\* schema defaults; the pre-save hook hashes the password
NewUser(email, password) ==
    [exists |-> TRUE, email |-> email, password |-> BcryptHash(password),
     role |-> "USER", isActive |-> TRUE, loginAttempts |-> 0,
     lockUntil |-> Undefined, refreshTokens |-> <<>>, v |-> 0]

\* mutant: no account is ever taken as locked
isLocked_Never(doc, t) == FALSE

\* UserSchema.methods.isLocked
isLocked(doc, t) == IsSet(doc.lockUntil) /\ Val(doc.lockUntil) > t

NoUpdates ==
    [inc |-> 0, setLoginAttempts |-> Undefined, unsetLockUntil |-> FALSE,
     setLockUntil |-> Undefined]

\* mutant: the lock is set one attempt late
incrementLoginAttempts_LateLock(doc, t) ==
    IF IsSet(doc.lockUntil) /\ Val(doc.lockUntil) < t
    THEN [NoUpdates EXCEPT !.setLoginAttempts = Some(1),
                           !.unsetLockUntil = TRUE]
    ELSE [NoUpdates EXCEPT
            !.inc = 1,
            !.setLockUntil =
                IF doc.loginAttempts + 1 > MAX_LOGIN_ATTEMPTS
                   /\ ~isLocked(doc, t)
                THEN Some(t + LOCKOUT_DURATION) ELSE Undefined]

\* mutant: an elapsed lock does not restart the count
incrementLoginAttempts_NoRestart(doc, t) ==
    [NoUpdates EXCEPT
        !.inc = 1,
        !.setLockUntil =
            IF doc.loginAttempts + 1 >= MAX_LOGIN_ATTEMPTS /\ ~isLocked(doc, t)
            THEN Some(t + LOCKOUT_DURATION) ELSE Undefined]

\* UserSchema.methods.incrementLoginAttempts: the update it builds from the
\* document it was called on (the copy read by findOne) at time t
incrementLoginAttempts(doc, t) ==
    IF IsSet(doc.lockUntil) /\ Val(doc.lockUntil) < t
    THEN [NoUpdates EXCEPT !.setLoginAttempts = Some(1),
                           !.unsetLockUntil = TRUE]
    ELSE [NoUpdates EXCEPT
            !.inc = 1,
            !.setLockUntil =
                IF doc.loginAttempts + 1 >= MAX_LOGIN_ATTEMPTS
                   /\ ~isLocked(doc, t)
                THEN Some(t + LOCKOUT_DURATION) ELSE Undefined]

\* mutant: the reset leaves lockUntil in place
resetLoginAttempts_KeepLock ==
    [NoUpdates EXCEPT !.setLoginAttempts = Some(0)]

\* UserSchema.methods.resetLoginAttempts: the update it sends
resetLoginAttempts ==
    [NoUpdates EXCEPT !.setLoginAttempts = Some(0), !.unsetLockUntil = TRUE]

\* User.findByIdAndUpdate(id, updates): $inc, $set and $unset applied by the
\* store to the stored document in one atomic operation
findByIdAndUpdate(stored, updates) ==
    IF ~stored.exists THEN stored
    ELSE [stored EXCEPT
            !.loginAttempts =
                IF IsSet(updates.setLoginAttempts)
                THEN Val(updates.setLoginAttempts)
                ELSE stored.loginAttempts + updates.inc,
            !.lockUntil =
                IF updates.unsetLockUntil THEN Undefined
                ELSE IF IsSet(updates.setLockUntil) THEN updates.setLockUntil
                ELSE stored.lockUntil]

\* UserSchema.pre('save'): drop the refresh tokens that have expired
PruneExpired(tokens, t) == SelectSeq(tokens, LAMBDA e : e.expiresAt > t)

\* user.refreshTokens.push({token, expiresAt}) followed by the pre-save hook
PushToken(doc, token, t) ==
    [doc EXCEPT !.refreshTokens =
        PruneExpired(Append(doc.refreshTokens,
                            [token |-> hashRefreshToken(token),
                             expiresAt |-> getRefreshTokenExpiry(t)]), t)]

\* user.save() of a document whose refreshTokens array was replaced: mongoose
\* sends {$set: {refreshTokens}, $inc: {__v: 1}} with the filter
\* {_id, __v: <the version read>}; when no document matches it throws a
\* VersionError.  TRUE when the write matches.
SaveMatches(stored, doc) == stored.exists /\ stored.v = doc.v

SaveWrite(stored, doc) ==
    [stored EXCEPT !.refreshTokens = doc.refreshTokens, !.v = doc.v + 1]

----------------------------------------------------------------------------
(* The rate limiter *)

\* const ip = forwarded ? forwarded.split(',')[0] : 'unknown'
rateLimitKey(fwd) == <<"rate-limit", IF fwd = <<>> THEN "unknown" ELSE fwd[1]>>

RateKeys == {rateLimitKey(fwd) : fwd \in Forwarded}

\* mutant: a stored window is never reset
rateLimitData_NoReset(store, key, config, t) ==
    LET old == store[key]
        cur == IF ~IsSet(old)
               THEN [count |-> 0, resetTime |-> t + config.windowMs]
               ELSE Val(old)
    IN [cur EXCEPT !.count = @ + 1]

\* the entry rateLimit(config) stores for the key at time t
rateLimitData(store, key, config, t) ==
    LET old == store[key]
        cur == IF ~IsSet(old) \/ t > Val(old).resetTime
               THEN [count |-> 0, resetTime |-> t + config.windowMs]
               ELSE Val(old)
    IN [cur EXCEPT !.count = @ + 1]

\* mutant: the maxRequests-th request is already denied
rateLimitResponse_OffByOne(data, config, t) ==
    IF data.count >= config.maxRequests
    THEN Some([errorResponse(RateLimitError("Too many requests"))
               EXCEPT !.data.headers =
                   Some([retryAfter |-> Ceil(data.resetTime - t, 1000),
                         limit |-> config.maxRequests,
                         remaining |-> 0,
                         reset |-> data.resetTime])])
    ELSE Undefined

\* the response of rateLimit(config): Undefined (null) to continue
rateLimitResponse(data, config, t) ==
    IF data.count > config.maxRequests
    THEN LET retryAfter == Ceil(data.resetTime - t, 1000)
         IN Some([errorResponse(RateLimitError("Too many requests"))
                  EXCEPT !.data.headers =
                      Some([retryAfter |-> retryAfter,
                            limit |-> config.maxRequests,
                            remaining |-> 0,
                            reset |-> data.resetTime])])
    ELSE Undefined

----------------------------------------------------------------------------
(* Request slots *)

\* the JSON body of a login or register request
NoBody == [email |-> "", password |-> ""]

Idle ==
    [pc |-> "idle", route |-> "", forwarded |-> <<>>, body |-> NoBody,
     email |-> "",
     cookie |-> Undefined, doc |-> NoUser, checkedAt |-> Undefined,
     updates |-> NoUpdates,
     accessToken |-> Undefined, newToken |-> Undefined, resp |-> NoResponse]

\* the handler returns: the response is the slot's final state
Done(r, local, response) ==
    req' = [req EXCEPT ![r] = [local EXCEPT !.pc = "done", !.resp = response]]

\* crypto.randomBytes(32): a value never produced before
FreshToken == nextToken + 1

----------------------------------------------------------------------------
(* POST /api/auth/login *)

\* mutant: the request is processed whatever the rate limiter answered
LoginStart_Unlimited(r, fwd, rawEmail, password) ==
    /\ req[r].pc = "idle"
    /\ LET key == rateLimitKey(fwd)
           data == rateLimitData(rateLimitStore, key, RATE_LIMITS_AUTH, now)
           local == [Idle EXCEPT !.route = "login",
                                 !.forwarded = fwd,
                                 !.body = [email |-> rawEmail,
                                           password |-> password]]
       IN /\ data.count <= RATE_LIMITS_AUTH.maxRequests + MaxDenied
          /\ rateLimitStore' = [rateLimitStore EXCEPT ![key] = Some(data)]
          /\ IF ~IsEmail(rawEmail)
             THEN Done(r, local,
                       errorResponse(ValidationError("Invalid input data")))
             ELSE req' = [req EXCEPT ![r] =
                            [local EXCEPT !.pc = "find",
                                          !.email = NormalizeEmail(rawEmail)]]
    /\ UNCHANGED <<now, ticks, users, nextToken, rotated, failStreak, gate, dataVars>>

LoginStart(r, fwd, rawEmail, password) ==
    /\ req[r].pc = "idle"
    /\ LET key == rateLimitKey(fwd)
           data == rateLimitData(rateLimitStore, key, RATE_LIMITS_AUTH, now)
           limited == rateLimitResponse(data, RATE_LIMITS_AUTH, now)
           local == [Idle EXCEPT !.route = "login",
                                 !.forwarded = fwd,
                                 !.body = [email |-> rawEmail,
                                           password |-> password]]
       IN /\ data.count <= RATE_LIMITS_AUTH.maxRequests + MaxDenied
          /\ rateLimitStore' = [rateLimitStore EXCEPT ![key] = Some(data)]
          /\ IF IsSet(limited)
             THEN Done(r, local, Val(limited))
             ELSE IF ~IsEmail(rawEmail)
             THEN Done(r, local,
                       errorResponse(ValidationError("Invalid input data")))
             ELSE req' = [req EXCEPT ![r] =
                            [local EXCEPT !.pc = "find",
                                          !.email = NormalizeEmail(rawEmail)]]
    /\ UNCHANGED <<now, ticks, users, nextToken, rotated, failStreak, gate, dataVars>>

LoginFind(r) ==
    /\ req[r].pc = "find" /\ req[r].route = "login"
    /\ LET local == req[r]
           user == IF local.email \in Emails THEN users[local.email]
                   ELSE NoUser
       IN IF ~user.exists
          THEN Done(r, local, errorResponse(
                   AuthenticationError("Invalid email or password")))
          ELSE IF isLocked(user, now)
          THEN Done(r, [local EXCEPT !.doc = user],
                    [errorResponse(AppError("Account is locked",
                                            423, "ACCOUNT_LOCKED"))
                     EXCEPT !.data.minutes =
                        Some(Ceil(Val(user.lockUntil) - now, 60000))])
          ELSE IF ~user.isActive
          THEN Done(r, [local EXCEPT !.doc = user], errorResponse(
                   AuthenticationError("Account is deactivated")))
          ELSE req' = [req EXCEPT ![r] =
                          [local EXCEPT !.pc = "compare", !.doc = user]]
    /\ UNCHANGED <<now, ticks, users, rateLimitStore, nextToken, rotated,
                   failStreak, gate, dataVars>>

\* await user.comparePassword(password), then the call of
\* incrementLoginAttempts up to its await, or of resetLoginAttempts
LoginCompare(r) ==
    /\ req[r].pc = "compare"
    /\ LET local == req[r]
       IN IF ~ComparePassword(local.body.password, local.doc.password)
          THEN req' = [req EXCEPT ![r] =
                  [local EXCEPT !.pc = "increment",
                       !.checkedAt = Some(now),
                       !.updates = incrementLoginAttempts(local.doc, now)]]
          ELSE req' = [req EXCEPT ![r] =
                  [local EXCEPT !.pc = "reset",
                                !.updates = resetLoginAttempts]]
    /\ UNCHANGED <<now, ticks, users, rateLimitStore, nextToken, rotated,
                   failStreak, gate, dataVars>>

\* mutant: a failed password check is answered in words of its own
LoginIncrement_Reveals(r) ==
    /\ req[r].pc = "increment"
    /\ LET local == req[r]
       IN /\ users' = [users EXCEPT ![local.email] =
                          findByIdAndUpdate(@, local.updates)]
          /\ failStreak' = [failStreak EXCEPT ![local.email] = @ + 1]
          /\ Done(r, local, errorResponse(
                 AuthenticationError("Invalid password")))
    /\ UNCHANGED <<now, ticks, rateLimitStore, nextToken, rotated, gate, dataVars>>

\* the store applies the update of incrementLoginAttempts; the handler
\* throws AuthenticationError
LoginIncrement(r) ==
    /\ req[r].pc = "increment"
    /\ LET local == req[r]
       IN /\ users' = [users EXCEPT ![local.email] =
                          findByIdAndUpdate(@, local.updates)]
          /\ failStreak' = [failStreak EXCEPT ![local.email] = @ + 1]
          /\ Done(r, local, errorResponse(
                 AuthenticationError("Invalid email or password")))
    /\ UNCHANGED <<now, ticks, rateLimitStore, nextToken, rotated, gate, dataVars>>

\* the store applies the update of resetLoginAttempts; the handler then
\* generates the token pair, pushes the hashed refresh token and calls save()
LoginReset(r) ==
    /\ req[r].pc = "reset"
    /\ nextToken < MaxTokens
    /\ LET local == req[r]
       IN /\ users' = [users EXCEPT ![local.email] =
                          findByIdAndUpdate(@, local.updates)]
          /\ failStreak' = [failStreak EXCEPT ![local.email] = 0]
          /\ nextToken' = FreshToken
          /\ req' = [req EXCEPT ![r] =
                [local EXCEPT !.pc = "save",
                              !.accessToken = Some(generateAccessToken(
                                                  JWTPayload(local.doc), now)),
                              !.newToken = Some(FreshToken),
                              !.doc = PushToken(local.doc, FreshToken, now)]]
    /\ UNCHANGED <<now, ticks, rateLimitStore, rotated, gate, dataVars>>

\* await user.save(), then the response
LoginSave(r) ==
    /\ req[r].pc = "save" /\ req[r].route = "login"
    /\ LET local == req[r]
           stored == users[local.email]
       IN IF SaveMatches(stored, local.doc)
          THEN /\ users' = [users EXCEPT ![local.email] =
                               SaveWrite(stored, local.doc)]
               /\ Done(r, local,
                    successResponse(200, "Login successful",
                      [NoData EXCEPT
                         !.accessToken = local.accessToken,
                         !.cookie = SetCookie(local.newToken,
                                              7 * 24 * 60 * 60)]))
          ELSE /\ UNCHANGED users
               /\ Done(r, local, errorResponse(
                      AppError("Login failed. Please try again.", 500,
                               "INTERNAL_ERROR")))
    /\ UNCHANGED <<now, ticks, rateLimitStore, nextToken, rotated,
                   failStreak, gate, dataVars>>

----------------------------------------------------------------------------
(* POST /api/auth/register *)

\* validation, then await User.findOne({email})
RegisterStart(r, rawEmail, password) ==
    /\ req[r].pc = "idle"
    /\ LET local == [Idle EXCEPT !.route = "register",
                                 !.body = [email |-> rawEmail,
                                           password |-> password]]
           email == NormalizeEmail(rawEmail)
       IN IF ~IsEmail(rawEmail) \/ ~IsStrongPassword(password)
          THEN Done(r, local,
                    errorResponse(ValidationError("Invalid input data")))
          ELSE IF users[email].exists
          THEN Done(r, [local EXCEPT !.email = email], errorResponse(
                 ConflictError("An account with this email already exists")))
          ELSE req' = [req EXCEPT ![r] =
                          [local EXCEPT !.pc = "create", !.email = email]]
    /\ UNCHANGED <<now, ticks, users, rateLimitStore, nextToken, rotated,
                   failStreak, gate, dataVars>>

\* await User.create(...): the unique index on email rejects a duplicate
\* with a driver error; then the token pair, the push and the call of save()
RegisterCreate(r) ==
    /\ req[r].pc = "create"
    /\ LET local == req[r]
           user == NewUser(local.email, local.body.password)
       IN IF users[local.email].exists
          THEN /\ Done(r, local, errorResponse(
                      AppError("Registration failed. Please try again.", 500,
                               "INTERNAL_ERROR")))
               /\ UNCHANGED <<users, nextToken, failStreak>>
          ELSE /\ nextToken < MaxTokens
               /\ users' = [users EXCEPT ![local.email] = user]
               /\ failStreak' = [failStreak EXCEPT ![local.email] = 0]
               /\ nextToken' = FreshToken
               /\ req' = [req EXCEPT ![r] =
                     [local EXCEPT !.pc = "save",
                                   !.accessToken = Some(generateAccessToken(
                                                       JWTPayload(user), now)),
                                   !.newToken = Some(FreshToken),
                                   !.doc = PushToken(user, FreshToken, now)]]
    /\ UNCHANGED <<now, ticks, rateLimitStore, rotated, gate, dataVars>>

RegisterSave(r) ==
    /\ req[r].pc = "save" /\ req[r].route = "register"
    /\ LET local == req[r]
           stored == users[local.email]
       IN IF SaveMatches(stored, local.doc)
          THEN /\ users' = [users EXCEPT ![local.email] =
                               SaveWrite(stored, local.doc)]
               /\ Done(r, local,
                    successResponse(201, "Registration successful",
                      [NoData EXCEPT
                         !.accessToken = local.accessToken,
                         !.cookie = SetCookie(local.newToken,
                                              7 * 24 * 60 * 60)]))
          ELSE /\ UNCHANGED users
               /\ Done(r, local, errorResponse(
                      AppError("Registration failed. Please try again.", 500,
                               "INTERNAL_ERROR")))
    /\ UNCHANGED <<now, ticks, rateLimitStore, nextToken, rotated,
                   failStreak, gate, dataVars>>

----------------------------------------------------------------------------
(* POST /api/auth/refresh *)

HasToken(user, hashedToken) ==
    \E i \in 1..Len(user.refreshTokens) :
        user.refreshTokens[i].token = hashedToken

\* User.findOne({'refreshTokens.token': hashedToken,
\*               'refreshTokens.expiresAt': {$gt: now}}):
\* each condition is met by some element of the array, not necessarily the
\* same one
RefreshQueryMatches(user, hashedToken, t) ==
    /\ user.exists
    /\ HasToken(user, hashedToken)
    /\ \E j \in 1..Len(user.refreshTokens) :
          user.refreshTokens[j].expiresAt > t

FindByRefreshToken(hashedToken, t) ==
    IF \E e \in Emails : RefreshQueryMatches(users[e], hashedToken, t)
    THEN users[CHOOSE e \in Emails :
                   RefreshQueryMatches(users[e], hashedToken, t)]
    ELSE NoUser

\* mutant: the filter keeps the presented token
RemoveToken_Keep(doc, hashedToken) == doc

\* user.refreshTokens = user.refreshTokens.filter(t => t.token !== hashed)
RemoveToken(doc, hashedToken) ==
    [doc EXCEPT !.refreshTokens =
        SelectSeq(doc.refreshTokens, LAMBDA e : e.token # hashedToken)]

\* the cookie, await User.findOne(...), the rotation of the document read
\* and the call of save()
RefreshFind(r, cookie) ==
    /\ req[r].pc = "idle"
    /\ LET local == [Idle EXCEPT !.route = "refresh", !.cookie = cookie]
       IN IF ~IsSet(cookie)
          THEN /\ Done(r, local, errorResponse(
                      AuthenticationError("Refresh token not found")))
               /\ UNCHANGED nextToken
          ELSE LET hashedToken == hashRefreshToken(Val(cookie))
                   user == FindByRefreshToken(hashedToken, now)
               IN IF ~user.exists
                  THEN /\ Done(r, local, errorResponse(AuthenticationError(
                              "Invalid or expired refresh token")))
                       /\ UNCHANGED nextToken
                  ELSE /\ nextToken < MaxTokens
                       /\ nextToken' = FreshToken
                       /\ req' = [req EXCEPT ![r] =
                            [local EXCEPT
                               !.pc = "save",
                               !.email = user.email,
                               !.accessToken = Some(generateAccessToken(
                                                   JWTPayload(user), now)),
                               !.newToken = Some(FreshToken),
                               !.doc = PushToken(
                                          RemoveToken(user, hashedToken),
                                          FreshToken, now)]]
    /\ UNCHANGED <<now, ticks, users, rateLimitStore, rotated, failStreak,
                   gate, dataVars>>

RefreshSave(r) ==
    /\ req[r].pc = "save" /\ req[r].route = "refresh"
    /\ LET local == req[r]
           stored == users[local.email]
       IN IF SaveMatches(stored, local.doc)
          THEN /\ users' = [users EXCEPT ![local.email] =
                               SaveWrite(stored, local.doc)]
               /\ rotated' = rotated \cup {Val(local.cookie)}
               /\ Done(r, local,
                    successResponse(200, "Token refreshed successfully",
                      [NoData EXCEPT
                         !.accessToken = local.accessToken,
                         !.cookie = SetCookie(local.newToken,
                                              7 * 24 * 60 * 60)]))
          ELSE /\ UNCHANGED <<users, rotated>>
               /\ Done(r, local, errorResponse(
                      AppError("Token refresh failed", 500,
                               "INTERNAL_ERROR")))
    /\ UNCHANGED <<now, ticks, rateLimitStore, nextToken, failStreak, gate, dataVars>>

----------------------------------------------------------------------------
(* POST /api/auth/logout *)

\* User.updateOne({'refreshTokens.token': h}, {$pull: {refreshTokens:
\* {token: h}}}): one atomic update of the first matching document
Logout(r, cookie) ==
    /\ req[r].pc = "idle"
    /\ LET local == [Idle EXCEPT !.route = "logout", !.cookie = cookie]
           hashedToken == hashRefreshToken(Val(cookie))
           owners == {e \in Emails : users[e].exists
                                     /\ HasToken(users[e], hashedToken)}
       IN /\ IF IsSet(cookie) /\ owners # {}
             THEN users' = [users EXCEPT ![CHOOSE e \in owners : TRUE] =
                               RemoveToken(@, hashedToken)]
             ELSE UNCHANGED users
          /\ Done(r, local,
                  successResponse(200, "Logged out successfully",
                     [NoData EXCEPT !.cookie = SetCookie(Undefined, 0)]))
    /\ UNCHANGED <<now, ticks, rateLimitStore, nextToken, rotated,
                   failStreak, gate, dataVars>>

----------------------------------------------------------------------------
(* The RBAC gate *)

MaxAllowed == 2

\* the allowedRoles arrays a route may pass
RoleLists == UNION {[1..n -> ROLES] : n \in 0..MaxAllowed}

\* the decoded identities withAuth hands on
Identities == {[userId |-> <<"id", "a@b.com">>, email |-> "a@b.com",
                role |-> role] : role \in ROLES}

Requests == {"PATCH /api/issues/1", "DELETE /api/issues/1"}

\* what a wrapped handler may answer
HandlerResponses == {successResponse(200, "handled", NoData),
                     errorResponse(AppError("Issue not found", 404,
                                            "NOT_FOUND"))}

\* mutant: ADMIN passes every check
checkRole_AdminInherits(allowedRoles, user) ==
    IF ~Includes(allowedRoles, user.role) /\ user.role # "ADMIN"
    THEN Some(errorResponse(AuthorizationError(
             "You do not have permission to access this resource")))
    ELSE Undefined

\* checkRole(allowedRoles)(user): Undefined (null) when the role is allowed
checkRole(allowedRoles, user) ==
    IF ~Includes(allowedRoles, user.role)
    THEN Some(errorResponse(AuthorizationError(
             "You do not have permission to access this resource")))
    ELSE Undefined

requireAdmin(user) == checkRole(<<"ADMIN">>, user)

requireManagerOrAdmin(user) == checkRole(<<"MANAGER", "ADMIN">>, user)

\* mutant: the handler runs before the role check is looked at
withRole_CallsFirst(allowedRoles, handlerResponse, request, context) ==
    LET roleCheck == checkRole(allowedRoles, context.user)
    IN [response |-> IF IsSet(roleCheck) THEN Val(roleCheck)
                     ELSE handlerResponse,
        calls |-> <<[request |-> request, context |-> context]>>]

\* withRole(allowedRoles)(handler)(request, context): its response and the
\* calls of the handler it makes; the handler answers handlerResponse
withRole(allowedRoles, handlerResponse, request, context) ==
    LET roleCheck == checkRole(allowedRoles, context.user)
    IN IF IsSet(roleCheck)
       THEN [response |-> Val(roleCheck), calls |-> <<>>]
       ELSE [response |-> handlerResponse,
             calls |-> <<[request |-> request, context |-> context]>>]

NoGate ==
    [fn |-> "", allowedRoles |-> <<>>, request |-> "",
     context |-> [user |-> [userId |-> <<>>, email |-> "", role |-> ""]],
     handlerResponse |-> NoResponse, result |-> Undefined, calls |-> <<>>]

GateUnchanged ==
    UNCHANGED <<now, ticks, users, rateLimitStore, nextToken, req, rotated,
                failStreak, dataVars>>

CheckRole(allowedRoles, user) ==
    /\ gate' = [NoGate EXCEPT !.fn = "checkRole",
                              !.allowedRoles = allowedRoles,
                              !.context = [user |-> user],
                              !.result = checkRole(allowedRoles, user)]
    /\ GateUnchanged

RequireAdmin(user) ==
    /\ gate' = [NoGate EXCEPT !.fn = "requireAdmin",
                              !.context = [user |-> user],
                              !.result = requireAdmin(user)]
    /\ GateUnchanged

RequireManagerOrAdmin(user) ==
    /\ gate' = [NoGate EXCEPT !.fn = "requireManagerOrAdmin",
                              !.context = [user |-> user],
                              !.result = requireManagerOrAdmin(user)]
    /\ GateUnchanged

WithRole(allowedRoles, handlerResponse, request, context) ==
    /\ LET out == withRole(allowedRoles, handlerResponse, request, context)
       IN gate' = [NoGate EXCEPT !.fn = "withRole",
                                 !.allowedRoles = allowedRoles,
                                 !.request = request,
                                 !.context = context,
                                 !.handlerResponse = handlerResponse,
                                 !.result = Some(out.response),
                                 !.calls = out.calls]
    /\ GateUnchanged

NextRbac ==
    \/ \E allowedRoles \in RoleLists, user \in Identities :
          CheckRole(allowedRoles, user)
    \/ \E user \in Identities : RequireAdmin(user)
    \/ \E user \in Identities : RequireManagerOrAdmin(user)
    \/ \E allowedRoles \in RoleLists, response \in HandlerResponses,
          request \in Requests, user \in Identities :
          WithRole(allowedRoles, response, request, [user |-> user])

----------------------------------------------------------------------------
(* Access tokens and the bearer-token middleware *)

\* jsonwebtoken counts time in whole seconds
Seconds(t) == t \div 1000

JWT_SECRET == "JWT_SECRET"

NoPayload == [userId |-> <<>>, email |-> "", role |-> ""]

\* credentials nobody signed with the server secret: not a JWT at all, the
\* empty string, a JWT signed with another secret, an unsigned JWT
Malformed ==
    [kind |-> "garbage", payload |-> NoPayload, iat |-> 0, exp |-> 0,
     alg |-> "", secret |-> ""]
EmptyCredential == [Malformed EXCEPT !.kind = "empty"]
Forged(payload, t) ==
    [kind |-> "jwt", payload |-> payload, iat |-> Seconds(t),
     exp |-> Seconds(t) + Seconds(JWT_EXPIRES_MS), alg |-> "HS256",
     secret |-> "guessed"]
Unsigned(payload, t) ==
    [Forged(payload, t) EXCEPT !.alg = "none", !.secret = ""]

\* mutant: the expiry claim is not looked at
jwtVerify_IgnoreExpiration(token, secret, algorithms, t) ==
    IF token.kind # "jwt" \/ ~Includes(algorithms, token.alg)
       \/ token.secret # secret
    THEN Undefined
    ELSE Some([userId |-> token.payload.userId,
               email |-> token.payload.email, role |-> token.payload.role,
               iat |-> token.iat, exp |-> token.exp])

\* jwt.verify(token, secret, {algorithms}): the decoded claims, or Undefined
\* where it throws
jwtVerify(token, secret, algorithms, t) ==
    IF token.kind # "jwt" \/ ~Includes(algorithms, token.alg)
       \/ token.secret # secret \/ Seconds(t) >= token.exp
    THEN Undefined
    ELSE Some([userId |-> token.payload.userId,
               email |-> token.payload.email, role |-> token.payload.role,
               iat |-> token.iat, exp |-> token.exp])

\* verifyAccessToken(token): null (Undefined) where jwt.verify throws
verifyAccessToken(token, t) == jwtVerify(token, JWT_SECRET, <<"HS256">>, t)

\* an Authorization header is absent or a prefix followed by a credential
Header(prefix, rest) == Some([prefix |-> prefix, rest |-> rest])

\* extractBearerToken(authHeader)
extractBearerToken(authHeader) ==
    IF ~IsSet(authHeader) \/ Val(authHeader).prefix # "Bearer "
    THEN Undefined
    ELSE Some(Val(authHeader).rest)

\* mutant: an unverifiable token is let through with the claims it carries
authMiddleware_TrustsClaims(authHeader, t) ==
    LET token == extractBearerToken(authHeader)
    IN IF ~IsSet(token) \/ Val(token).kind = "empty"
       THEN [ok |-> FALSE, user |-> NoPayload,
             response |-> errorResponse(AuthenticationError(
                              "No authentication token provided"))]
       ELSE [ok |-> TRUE, user |-> Val(token).payload,
             response |-> NoResponse]

\* authMiddleware(request): {user} or the error response
authMiddleware(authHeader, t) ==
    LET token == extractBearerToken(authHeader)
    IN IF ~IsSet(token) \/ Val(token).kind = "empty"
       THEN [ok |-> FALSE, user |-> NoPayload,
             response |-> errorResponse(AuthenticationError(
                              "No authentication token provided"))]
       ELSE LET payload == verifyAccessToken(Val(token), t)
            IN IF ~IsSet(payload)
               THEN [ok |-> FALSE, user |-> NoPayload,
                     response |-> errorResponse(AuthenticationError(
                                      "Invalid or expired token"))]
               ELSE [ok |-> TRUE, user |-> Val(payload),
                     response |-> NoResponse]

\* the times at which the tokens in circulation were issued
IssueTimes == {0, 1000}

AccessTokens ==
    {generateAccessToken(p, t) : p \in Identities, t \in IssueTimes}

Credentials(t) ==
    {token \in AccessTokens : token.iat <= Seconds(t)}
    \cup {Malformed, EmptyCredential}
    \cup {Forged(p, 0) : p \in Identities}
    \cup {Unsigned(p, 0) : p \in Identities}

Headers(t) ==
    {Undefined}
    \cup {Header(prefix, c) : prefix \in {"Bearer ", "bearer ", "Token "},
                              c \in Credentials(t)}

----------------------------------------------------------------------------
(* Issues, comments and the audit trail: data *)

MaxOps == 2
MaxFields == 2

ISSUE_STATUS == {"OPEN", "IN_PROGRESS", "RESOLVED", "CLOSED"}
ISSUE_PRIORITY == {"LOW", "MEDIUM", "HIGH", "CRITICAL"}
ISSUE_TYPE == {"BUG", "FEATURE", "TASK", "INCIDENT"}

AuditAction == {"CREATED", "UPDATED", "DELETED", "ASSIGNED", "UNASSIGNED",
                "STATUS_CHANGED", "PRIORITY_CHANGED", "COMMENTED",
                "COMMENT_EDITED", "COMMENT_DELETED"}

\* a text is the sequence of its characters
Chars(n, c) == [i \in 1..n |-> c]
Ellipsis == <<".", ".", ".">>
Substring(text, from, to) ==
    SubSeq(text, from + 1, IF to < Len(text) THEN to ELSE Len(text))

\* text.substring(0, n) + '...'
Preview(text, n) == Substring(text, 0, n) \o Ellipsis

\* request inputs (titles are given trimmed)
IssueIds == {"i1", "i2"}
RawIds == IssueIds \cup {"not-an-id"}
Titles == {"Login fails", "Login fails on Safari"}
RawTitles == Titles \cup {"Hi"}
Descriptions == {Chars(12, "a"), Chars(101, "b"), Chars(7, "c")}
Statuses == {"OPEN", "RESOLVED", "CLOSED"}
Priorities == {"LOW", "HIGH"}
Types == {"BUG", "TASK"}
TagLists == {<<>>, <<"ui", "api">>}
UserId(email) == <<"id", email>>
AssigneeIds == {UserId("a@b.com"), UserId("gone@b.com")}

\* mongoose.Types.ObjectId.isValid(id)
IsValidObjectId(id) == id \in IssueIds

\* User.findById(id)
UserExists(id) == \E e \in Emails : users[e].exists /\ id = UserId(e)

NoIssue ==
    [exists |-> FALSE, title |-> "", description |-> <<>>, status |-> "",
     priority |-> "", type |-> "", tags |-> <<>>, assignedTo |-> Undefined,
     reportedBy |-> Undefined, resolvedAt |-> Undefined,
     closedAt |-> Undefined, deletedAt |-> Undefined]

\* the fields of updateIssueSchema, in the order of its shape
UpdateFields ==
    <<"title", "description", "status", "priority", "type", "tags",
      "assignedTo">>

\* what a request body may give each field: absent is Undefined; assignedTo
\* may be null, which is Some(Undefined)
FieldInputs ==
    [title |-> RawTitles, description |-> Descriptions, status |-> Statuses,
     priority |-> Priorities, type |-> Types, tags |-> TagLists,
     assignedTo |-> {Undefined} \cup {Some(a) : a \in AssigneeIds}]

NoUpdate == [f \in DOMAIN FieldInputs |-> Undefined]

Has(body, f) == IsSet(body[f])

\* Object.keys(validatedData)
Keys(body) == SelectSeq(UpdateFields, LAMBDA f : Has(body, f))

OptionalInput(f) == {Undefined} \cup {Some(v) : v \in FieldInputs[f]}

\* the bodies that give at most n fields
RECURSIVE BodiesOf(_)
BodiesOf(n) ==
    IF n = 0 THEN {NoUpdate}
    ELSE LET fewer == BodiesOf(n - 1)
         IN fewer \cup
            UNION {UNION {{[body EXCEPT ![f] = x] :
                              x \in OptionalInput(f) \ {Undefined}} :
                          f \in {g \in DOMAIN FieldInputs : ~Has(body, g)}} :
                   body \in fewer}

Bodies == BodiesOf(MaxFields)

\* updateIssueSchema.parse(body) succeeds
IsValidUpdate(body) ==
    /\ Has(body, "title") => Val(body.title) \in Titles
    /\ Has(body, "description") =>
          Len(Val(body.description)) >= 5 /\ Len(Val(body.description)) <= 5000
    /\ Has(body, "status") => Val(body.status) \in ISSUE_STATUS
    /\ Has(body, "priority") => Val(body.priority) \in ISSUE_PRIORITY
    /\ Has(body, "type") => Val(body.type) \in ISSUE_TYPE
    /\ Has(body, "tags") => Len(Val(body.tags)) <= 10

\* IssueSchema's validators on the paths a save writes
IsValidIssue(issue) ==
    /\ Len(issue.description) >= 10 /\ Len(issue.description) <= 5000
    /\ issue.status \in ISSUE_STATUS
    /\ issue.priority \in ISSUE_PRIORITY
    /\ issue.type \in ISSUE_TYPE
    /\ Len(issue.tags) <= 10

\* IssueSchema.pre('save'): stamps resolvedAt and closedAt
PreSaveIssue(stored, issue, t) ==
    IF issue.status = stored.status THEN issue
    ELSE [issue EXCEPT
            !.resolvedAt = IF issue.status = "RESOLVED" /\ ~IsSet(@)
                           THEN Some(t) ELSE @,
            !.closedAt = IF issue.status = "CLOSED" /\ ~IsSet(@)
                         THEN Some(t) ELSE @]

\* Array.prototype.sort on a tag list
TagRank(tag) == IF tag = "api" THEN 1 ELSE 2
SortTags(tags) ==
    IF Len(tags) = 2 /\ TagRank(tags[1]) > TagRank(tags[2])
    THEN <<tags[2], tags[1]>> ELSE tags

\* Array.prototype.join(', '): the joined text, kept as the list it joins
JoinTags(tags) == <<"join", tags>>

\* AuditLog.logAction(issueId, userId, action, details): the created entry
logAction(issueId, userId, action, details, t) ==
    [issueId |-> issueId, userId |-> userId, action |-> action,
     field |-> details.field, oldValue |-> details.oldValue,
     newValue |-> details.newValue, metadata |-> details.metadata,
     createdAt |-> t]

NoDetails == [field |-> Undefined, oldValue |-> Undefined,
              newValue |-> Undefined, metadata |-> Undefined]

Change(field, oldValue, newValue, action) ==
    [field |-> field, oldValue |-> oldValue, newValue |-> newValue,
     action |-> action]

\* new AppError(message, statusCode)
AppErrorStatus(message, statusCode) == AppError(message, statusCode, "AppError")

----------------------------------------------------------------------------
(* PATCH /api/issues/:id, as src/app/api/issues/[id]/route.ts has it *)

\* the handler throws or returns early: nothing is written
Rejected(error) ==
    [issues |-> issues, entries |-> <<>>, response |-> errorResponse(error)]

\* const { id } = context.params throws where the context has no params
HasParams(context) == IsSet(context.params)
ParamId(context) == Val(context.params).id

\* Regular users can only update status
hasRestrictedFields(body) ==
    \E i \in 1..Len(Keys(body)) : ~Includes(<<"status">>, Keys(body)[i])

\* mutant: the allow-list check is skipped
canEdit_Everyone(user) == TRUE

canEdit(user) == user.role = "ADMIN" \/ user.role = "MANAGER"

\* the change the loop records for one key of validatedData, if any
ChangeOf(issue, body, key) ==
    LET value == Val(body[key])
    IN IF key = "assignedTo"
       THEN IF issue.assignedTo # value
            THEN <<Change(key, issue.assignedTo, value, "UPDATED")>>
            ELSE <<>>
       ELSE IF key = "tags"
       THEN IF SortTags(issue.tags) # SortTags(value)
            THEN <<Change(key, Some(JoinTags(SortTags(issue.tags))),
                          Some(JoinTags(SortTags(value))), "UPDATED")>>
            ELSE <<>>
       ELSE IF issue[key] # value
            THEN <<Change(key, Some(issue[key]), Some(value), "UPDATED")>>
            ELSE <<>>

RECURSIVE ChangesFrom(_, _, _, _)
ChangesFrom(issue, body, keys, i) ==
    IF i > Len(keys) THEN <<>>
    ELSE ChangeOf(issue, body, keys[i])
             \o ChangesFrom(issue, body, keys, i + 1)

\* Object.assign(issue, updateFields): the changed keys take their values;
\* the tag lists the comparison sorted in place stay sorted
AssignChanged(issue, body, changes) ==
    LET changed == {changes[i].field : i \in 1..Len(changes)}
        sorted == IF Has(body, "tags")
                  THEN [issue EXCEPT !.tags = SortTags(@)] ELSE issue
    IN [f \in DOMAIN issue |->
           IF f \in changed
           THEN IF f = "tags" THEN SortTags(Val(body[f])) ELSE Val(body[f])
           ELSE sorted[f]]

\* the audit loop: one logAction per change
RECURSIVE LogChanges(_, _, _, _, _)
LogChanges(id, user, changes, t, i) ==
    IF i > Len(changes) THEN <<>>
    ELSE <<logAction(id, user.userId, changes[i].action,
                     [NoDetails EXCEPT !.field = Some(changes[i].field),
                                       !.oldValue = changes[i].oldValue,
                                       !.newValue = changes[i].newValue],
                     t)>>
             \o LogChanges(id, user, changes, t, i + 1)

PATCH_route(context, body, t) ==
    LET user == context.user
        id == ParamId(context)
        stored == issues[id]
    IN
    IF ~HasParams(context)
    THEN Rejected(AppErrorStatus("Failed to update issue", 500))
    ELSE IF ~IsValidObjectId(id)
    THEN Rejected(AppErrorStatus("Invalid issue ID", 400))
    ELSE IF ~IsValidUpdate(body)
    THEN Rejected(AppErrorStatus("Failed to update issue", 500))
    ELSE IF ~stored.exists \/ IsSet(stored.deletedAt)
    THEN Rejected(AppErrorStatus("Issue not found", 404))
    ELSE IF ~canEdit(user) /\ hasRestrictedFields(body)
    THEN Rejected(AppErrorStatus(
             "You do not have permission to edit this issue", 403))
    ELSE IF /\ Has(body, "assignedTo")
            /\ IsSet(Val(body.assignedTo))
            /\ ~UserExists(Val(Val(body.assignedTo)))
    THEN Rejected(AppErrorStatus("Assigned user not found", 404))
    ELSE
      LET changes == ChangesFrom(stored, body, Keys(body), 1)
          assigned == AssignChanged(stored, body, changes)
          resolved ==
              IF /\ \E i \in 1..Len(changes) : changes[i].field = "status"
                 /\ assigned.status = "RESOLVED"
                 /\ stored.status # "RESOLVED"
              THEN [assigned EXCEPT !.resolvedAt = Some(t)] ELSE assigned
          saved == PreSaveIssue(stored, resolved, t)
      IN IF ~IsValidIssue(saved)
         THEN Rejected(AppErrorStatus("Failed to update issue", 500))
         ELSE [issues |-> [issues EXCEPT ![id] = saved],
               entries |-> LogChanges(id, user, changes, t, 1),
               response |-> successResponse(200,
                                "Issue updated successfully", saved)]

----------------------------------------------------------------------------
(* PATCH /api/issues/:id, as the second copy of the route has it *)

Unassigned == "unassigned"

\* oldAssignedTo || 'unassigned'
OrUnassigned(assignee) ==
    IF IsSet(assignee) THEN Some(Val(assignee)) ELSE Some(Unassigned)

Differs(issue, body, key) == Has(body, key) /\ Val(body[key]) # issue[key]

\* the changes the handler collects, in the order of its if statements
ChangesOf(issue, body) ==
    (IF Differs(issue, body, "title")
     THEN <<Change("title", Some(issue.title), Some(Val(body.title)),
                   "UPDATED")>> ELSE <<>>)
    \o (IF Differs(issue, body, "description")
        THEN <<Change("description", Some(Preview(issue.description, 100)),
                      Some(Preview(Val(body.description), 100)),
                      "UPDATED")>> ELSE <<>>)
    \o (IF Differs(issue, body, "status")
        THEN <<Change("status", Some(issue.status), Some(Val(body.status)),
                      "STATUS_CHANGED")>> ELSE <<>>)
    \o (IF Differs(issue, body, "priority")
        THEN <<Change("priority", Some(issue.priority),
                      Some(Val(body.priority)), "PRIORITY_CHANGED")>>
        ELSE <<>>)
    \o (IF Differs(issue, body, "type")
        THEN <<Change("type", Some(issue.type), Some(Val(body.type)),
                      "UPDATED")>> ELSE <<>>)
    \o (IF Differs(issue, body, "assignedTo")
        THEN IF ~IsSet(Val(body.assignedTo))
             THEN <<Change("assignedTo", OrUnassigned(issue.assignedTo),
                           Some(Unassigned), "UNASSIGNED")>>
             ELSE <<Change("assignedTo", OrUnassigned(issue.assignedTo),
                           Some(Val(Val(body.assignedTo))), "ASSIGNED")>>
        ELSE <<>>)

\* Object.assign(issue, validatedData): every key of the body
AssignAll(issue, body) ==
    [f \in DOMAIN issue |->
        IF f \in DOMAIN body /\ Has(body, f) THEN Val(body[f]) ELSE issue[f]]

PATCH_part_006(context, body, t) ==
    LET user == context.user
        id == ParamId(context)
        stored == issues[id]
    IN
    IF ~HasParams(context)
    THEN Rejected(AppErrorStatus("Failed to update issue", 500))
    ELSE IF ~IsValidObjectId(id)
    THEN Rejected(AppErrorStatus("Invalid issue ID", 400))
    ELSE IF ~IsValidUpdate(body)
    THEN Rejected(AppErrorStatus("Failed to update issue", 500))
    ELSE IF ~stored.exists \/ IsSet(stored.deletedAt)
    THEN Rejected(AppErrorStatus("Issue not found", 404))
    ELSE IF /\ Differs(stored, body, "assignedTo")
            /\ IsSet(Val(body.assignedTo))
            /\ ~UserExists(Val(Val(body.assignedTo)))
    THEN Rejected(AppErrorStatus("Assigned user not found", 404))
    ELSE
      LET changes == ChangesOf(stored, body)
          saved == PreSaveIssue(stored, AssignAll(stored, body), t)
      IN IF ~IsValidIssue(saved)
         THEN Rejected(AppErrorStatus("Failed to update issue", 500))
         ELSE [issues |-> [issues EXCEPT ![id] = saved],
               entries |-> LogChanges(id, user, changes, t, 1),
               response |-> successResponse(200,
                                "Issue updated successfully", saved)]

----------------------------------------------------------------------------
(* The other issue routes *)

\* the bodies POST /api/issues is given; priority and assignee may be absent
CreateBodies ==
    LET body == [title |-> "Login fails", description |-> Chars(12, "a"),
                 type |-> "BUG", priority |-> Undefined,
                 tags |-> Some(<<"ui", "api">>), assignedTo |-> Undefined]
    IN {body,
        [body EXCEPT !.priority = Some("LOW"),
                     !.assignedTo = Some(UserId("a@b.com"))],
        [body EXCEPT !.title = "Hi"],
        [body EXCEPT !.description = Chars(7, "c")],
        [body EXCEPT !.assignedTo = Some(UserId("gone@b.com"))]}

\* createIssueSchema.parse(body) succeeds
IsValidCreate(body) ==
    /\ body.title \in Titles
    /\ Len(body.description) >= 10 /\ Len(body.description) <= 5000
    /\ body.type \in ISSUE_TYPE
    /\ IsSet(body.priority) => Val(body.priority) \in ISSUE_PRIORITY
    /\ IsSet(body.tags) => Len(Val(body.tags)) <= 10

\* Issue.create({...validatedData, reportedBy: user.userId})
NewIssue(body, user, t) ==
    [NoIssue EXCEPT
        !.exists = TRUE, !.title = body.title,
        !.description = body.description, !.status = "OPEN",
        !.priority = IF IsSet(body.priority) THEN Val(body.priority)
                     ELSE "MEDIUM",
        !.type = body.type,
        !.tags = IF IsSet(body.tags) THEN Val(body.tags) ELSE <<>>,
        !.assignedTo = body.assignedTo,
        !.reportedBy = Some(user.userId)]

FreeIds == {id \in IssueIds : ~issues[id].exists}

\* POST /api/issues
POST_issues(context, body, t) ==
    LET user == context.user
    IN IF ~IsValidCreate(body)
       THEN Rejected(AppErrorStatus("Failed to create issue", 500))
       ELSE IF IsSet(body.assignedTo) /\ ~UserExists(Val(body.assignedTo))
       THEN Rejected(AppErrorStatus("Assigned user not found", 404))
       ELSE LET id == CHOOSE i \in FreeIds : TRUE
                issue == NewIssue(body, user, t)
            IN [issues |-> [issues EXCEPT ![id] = issue],
                entries |-> <<logAction(id, user.userId, "CREATED",
                       [NoDetails EXCEPT !.metadata =
                           Some([title |-> issue.title, type |-> issue.type,
                                 priority |-> issue.priority])], t)>>,
                response |-> successResponse(200,
                                 "Issue created successfully", issue)]

\* the soft delete both copies of DELETE /api/issues/:id end with
SoftDelete(context, t) ==
    LET user == context.user
        id == ParamId(context)
        stored == issues[id]
    IN IF ~HasParams(context)
       THEN Rejected(AppErrorStatus("Failed to delete issue", 500))
       ELSE IF ~IsValidObjectId(id)
       THEN Rejected(AppErrorStatus("Invalid issue ID", 400))
       ELSE IF ~stored.exists \/ IsSet(stored.deletedAt)
       THEN Rejected(AppErrorStatus("Issue not found", 404))
       ELSE [issues |-> [issues EXCEPT ![id].deletedAt = Some(t)],
             entries |-> <<logAction(id, user.userId, "DELETED",
                    [NoDetails EXCEPT !.metadata =
                        Some([title |-> stored.title,
                              deletedBy |-> user.email])], t)>>,
             response |-> successResponse(200,
                              "Issue deleted successfully", NoIssue)]

\* DELETE /api/issues/:id, as src/app/api/issues/[id]/route.ts has it
DELETE_route(context, t) ==
    IF ~HasParams(context)
    THEN Rejected(AppErrorStatus("Failed to delete issue", 500))
    ELSE IF ~IsValidObjectId(ParamId(context))
    THEN Rejected(AppErrorStatus("Invalid issue ID", 400))
    ELSE IF context.user.role # "ADMIN" /\ context.user.role # "MANAGER"
    THEN Rejected(AppErrorStatus(
             "You do not have permission to delete issues", 403))
    ELSE SoftDelete(context, t)

\* requireAdmin(context): the context has no role property of its own
ContextAsUser(context) == [role |-> "undefined"]

\* DELETE /api/issues/:id, as the second copy has it: requireAdmin(context)
DELETE_part_006(context, t) ==
    LET rbacCheck == requireAdmin(ContextAsUser(context))
    IN IF IsSet(rbacCheck)
       THEN [issues |-> issues, entries |-> <<>>,
             response |-> Val(rbacCheck)]
       ELSE SoftDelete(context, t)

\* createCommentSchema.parse(body) succeeds
CommentTexts == {<<>>, Chars(3, "x"), Chars(51, "y")}
IsValidComment(text) == Len(text) >= 1 /\ Len(text) <= 2000

NoComment(error) ==
    [created |-> <<>>, entries |-> <<>>, response |-> errorResponse(error)]

\* the _id of the n-th comment created; 0 stands for a text that is no
\* ObjectId
CommentId(n) == <<"comment", n>>
RawCommentIds == {CommentId(n) : n \in 0..MaxOps}
IsValidCommentId(id) == id[2] > 0

\* POST /api/issues/:id/comments: the comment and the entry it writes
POST_comments(context, text, t) ==
    LET user == context.user
        id == ParamId(context)
    IN IF ~HasParams(context)
       THEN NoComment(AppErrorStatus("Failed to add comment", 500))
       ELSE IF ~IsValidObjectId(id)
       THEN NoComment(AppErrorStatus("Invalid issue ID", 400))
       ELSE IF ~issues[id].exists \/ IsSet(issues[id].deletedAt)
       THEN NoComment(AppErrorStatus("Issue not found", 404))
       ELSE IF ~IsValidComment(text)
       THEN NoComment(AppErrorStatus("Failed to add comment", 500))
       ELSE LET comment == [id |-> CommentId(Len(comments) + 1),
                            issueId |-> id, userId |-> user.userId,
                            text |-> text, isEdited |-> FALSE,
                            editedAt |-> Undefined, deletedAt |-> Undefined,
                            createdAt |-> t]
            IN [created |-> <<comment>>,
                entries |-> <<logAction(id, user.userId, "COMMENTED",
                       [NoDetails EXCEPT !.metadata =
                           Some([commentId |-> comment.id,
                                 preview |-> Preview(text, 50)])], t)>>,
                response |-> successResponse(201,
                                 "Comment added successfully", comment)]

----------------------------------------------------------------------------
(* PATCH and DELETE /api/comments/:id *)

\* the handler throws or returns early: nothing is written
KeptComments(error) ==
    [comments |-> comments, entries |-> <<>>,
     response |-> errorResponse(error)]

\* Comment.findOne({_id: id, deletedAt: null}): its position, 0 if none
FindComment(id) ==
    IF \E i \in 1..Len(comments) :
           comments[i].id = id /\ ~IsSet(comments[i].deletedAt)
    THEN CHOOSE i \in 1..Len(comments) :
             comments[i].id = id /\ ~IsSet(comments[i].deletedAt)
    ELSE 0

\* CommentSchema.pre('save'): an edit of the text is stamped
PreSaveComment(stored, comment, t) ==
    IF comment.text # stored.text
    THEN [comment EXCEPT !.isEdited = TRUE, !.editedAt = Some(t)]
    ELSE comment

PATCH_comment(context, text, t) ==
    LET user == context.user
        id == ParamId(context)
        i == FindComment(id)
    IN IF ~HasParams(context)
       THEN KeptComments(AppErrorStatus("Failed to update comment", 500))
       ELSE IF ~IsValidCommentId(id)
       THEN KeptComments(AppErrorStatus("Invalid comment ID", 400))
       ELSE IF ~IsValidComment(text)
       THEN KeptComments(AppErrorStatus("Failed to update comment", 500))
       ELSE IF i = 0
       THEN KeptComments(AppErrorStatus("Comment not found", 404))
       ELSE IF comments[i].userId # user.userId
       THEN KeptComments(AppErrorStatus(
                "You can only edit your own comments", 403))
       ELSE LET saved == PreSaveComment(comments[i],
                             [comments[i] EXCEPT !.text = text], t)
            IN [comments |-> [comments EXCEPT ![i] = saved],
                entries |-> <<logAction(saved.issueId, user.userId,
                       "COMMENT_EDITED",
                       [NoDetails EXCEPT
                           !.field = Some("text"),
                           !.oldValue = Some(Preview(comments[i].text, 50)),
                           !.newValue = Some(Preview(text, 50)),
                           !.metadata = Some([commentId |-> saved.id])],
                       t)>>,
                response |-> successResponse(200,
                                 "Comment updated successfully", saved)]

DELETE_comment(context, t) ==
    LET user == context.user
        id == ParamId(context)
        i == FindComment(id)
    IN IF ~HasParams(context)
       THEN KeptComments(AppErrorStatus("Failed to delete comment", 500))
       ELSE IF ~IsValidCommentId(id)
       THEN KeptComments(AppErrorStatus("Invalid comment ID", 400))
       ELSE IF i = 0
       THEN KeptComments(AppErrorStatus("Comment not found", 404))
       ELSE IF comments[i].userId # user.userId /\ user.role # "ADMIN"
       THEN KeptComments(AppErrorStatus(
                "You do not have permission to delete this comment", 403))
       ELSE [comments |-> [comments EXCEPT ![i].deletedAt = Some(t)],
             entries |-> <<logAction(comments[i].issueId, user.userId,
                    "COMMENT_DELETED",
                    [NoDetails EXCEPT !.metadata =
                        Some([commentId |-> comments[i].id,
                              deletedBy |-> user.email,
                              preview |-> Preview(comments[i].text, 50)])],
                    t)>>,
             response |-> successResponse(200,
                              "Comment deleted successfully", NoData)]

----------------------------------------------------------------------------
(* Reading the audit trail *)

MAX_TIMELINE == 100

\* the limit query parameter: absent, or one of these texts
LimitParams == {Undefined, Some(""), Some("0"), Some("2"), Some("-1"),
                Some("150"), Some("abc")}

\* parseInt(text, 10): Undefined is NaN
ParseInt(text) ==
    CASE text = "0" -> Some(0)
      [] text = "2" -> Some(2)
      [] text = "50" -> Some(50)
      [] text = "-1" -> Some(-1)
      [] text = "150" -> Some(150)
      [] OTHER -> Undefined

\* parseInt(searchParams.get('limit') || '50', 10)
RequestedLimit(param) ==
    ParseInt(IF IsSet(param) /\ Val(param) # "" THEN Val(param) ELSE "50")

\* Math.min(limit, 100): NaN stays NaN
MinLimit(limit) ==
    IF ~IsSet(limit) THEN Undefined
    ELSE IF Val(limit) < MAX_TIMELINE THEN limit ELSE Some(MAX_TIMELINE)

Reverse(seq) == [i \in 1..Len(seq) |-> seq[Len(seq) + 1 - i]]

\* sort({createdAt: -1}) of entries kept in creation order
NewestFirst(entries) == Reverse(entries)

Abs(n) == IF n < 0 THEN -n ELSE n

\* cursor.limit(n): 0 is no limit, a negative n is a limit of -n
Limit(entries, n) ==
    IF n = 0 \/ Abs(n) >= Len(entries) THEN entries
    ELSE SubSeq(entries, 1, Abs(n))

EntriesOf(id) == SelectSeq(auditLogs, LAMBDA e : e.issueId = id)

FailedRead(error) == [timeline |-> <<>>, response |-> errorResponse(error)]

\* GET /api/issues/:id/timeline; queryFails is what the driver does with a
\* limit that is NaN
GET_timeline(context, param, queryFails) ==
    LET id == ParamId(context)
        limit == MinLimit(RequestedLimit(param))
    IN IF ~HasParams(context)
       THEN FailedRead(AppErrorStatus("Failed to fetch timeline", 500))
       ELSE IF ~IsValidObjectId(id)
       THEN FailedRead(AppErrorStatus("Invalid issue ID", 400))
       ELSE IF ~issues[id].exists \/ IsSet(issues[id].deletedAt)
       THEN FailedRead(AppErrorStatus("Issue not found", 404))
       ELSE IF ~IsSet(limit) /\ queryFails
       THEN FailedRead(AppErrorStatus("Failed to fetch timeline", 500))
       ELSE LET timeline ==
                    Limit(NewestFirst(EntriesOf(id)),
                          IF IsSet(limit) THEN Val(limit) ELSE 0)
            IN [timeline |-> timeline,
                response |-> successResponse(200, "", Len(timeline))]

\* GET /api/stats: its recent activity, the last 10 entries
GET_stats(context) ==
    LET recentActivity == Limit(NewestFirst(auditLogs), 10)
    IN [timeline |-> recentActivity,
        response |-> successResponse(200, "", Len(recentActivity))]

----------------------------------------------------------------------------
(* The routes as exported: withAuth(handler) *)

\* mutant: the handler is called whatever the middleware answered
withAuth_AlwaysCalls(authHeader, t) ==
    LET authResult == authMiddleware(authHeader, t)
    IN [invoke |-> TRUE,
        context |-> [user |-> authResult.user, params |-> Undefined],
        response |-> authResult.response]

\* withAuth(handler)(request): whether it calls the handler, the context it
\* calls it with, and its own response otherwise.  The wrapper takes the
\* request alone, so the {params} the framework passes as second argument
\* is dropped and the context is authResult, which has no params.
withAuth(authHeader, t) ==
    LET authResult == authMiddleware(authHeader, t)
    IN IF ~authResult.ok
       THEN [invoke |-> FALSE,
             context |-> [user |-> NoPayload, params |-> Undefined],
             response |-> authResult.response]
       ELSE [invoke |-> TRUE,
             context |-> [user |-> authResult.user, params |-> Undefined],
             response |-> NoResponse]

\* the handler a route wraps, applied to the request and the {params} of
\* the route, with the user the credential authenticates
Applied(authHeader, id, t) ==
    LET authResult == authMiddleware(authHeader, t)
    IN [invoke |-> authResult.ok,
        context |-> [user |-> authResult.user, params |-> Some([id |-> id])],
        response |-> authResult.response]

\* a request is served by the exported route or by its handler
Exported(via, authHeader, id, t) ==
    IF via = "withAuth" THEN withAuth(authHeader, t)
    ELSE Applied(authHeader, id, t)

\* the record of a call: what was asked, what state it met, what it answered
NoCall ==
    [fn |-> "", via |-> "", header |-> Undefined, id |-> "",
     body |-> NoUpdate,
     at |-> 0, before |-> NoIssue, written |-> 0, invoked |-> FALSE,
     input |-> <<>>, result |-> <<>>, response |-> NoResponse]

Call(fn, via, header, id) ==
    [NoCall EXCEPT !.fn = fn, !.via = via, !.header = header, !.id = id,
                   !.at = now,
                   !.before = IF id \in IssueIds THEN issues[id] ELSE NoIssue]

AuthUnchanged ==
    UNCHANGED <<now, ticks, users, rateLimitStore, nextToken, req, rotated,
                failStreak, gate>>

\* mutant: the collection keeps only what was created last
Create_Replace(collection, docs) ==
    IF docs = <<>> THEN collection ELSE docs

\* Model.create(doc), once per document: the collection gains them
Create(collection, docs) == collection \o docs

\* a route that may write issues and audit entries
Write(call, w, out) ==
    /\ ops < MaxOps
    /\ ops' = ops + 1
    /\ issues' = IF w.invoke THEN out.issues ELSE issues
    /\ auditLogs' = IF w.invoke THEN Create(auditLogs, out.entries)
                    ELSE auditLogs
    /\ last' = [call EXCEPT
                  !.invoked = w.invoke,
                  !.written = IF w.invoke THEN Len(out.entries) ELSE 0,
                  !.response = IF w.invoke THEN out.response
                               ELSE w.response]
    /\ UNCHANGED comments
    /\ AuthUnchanged

CreateIssue(via, header, body) ==
    /\ FreeIds # {}
    /\ LET w == Exported(via, header, "", now)
       IN Write([Call("POST /api/issues", via, header, "") EXCEPT
                    !.input = body],
                w, POST_issues(w.context, body, now))

PatchIssue(via, header, id, body) ==
    LET w == Exported(via, header, id, now)
    IN Write([Call("PATCH /api/issues/:id", via, header, id) EXCEPT
                 !.body = body],
             w, PATCH_route(w.context, body, now))

PatchIssue_part_006(via, header, id, body) ==
    LET w == Exported(via, header, id, now)
    IN Write([Call("PATCH /api/issues/:id (2)", via, header, id) EXCEPT
                 !.body = body],
             w, PATCH_part_006(w.context, body, now))

DeleteIssue(via, header, id) ==
    LET w == Exported(via, header, id, now)
    IN Write(Call("DELETE /api/issues/:id", via, header, id), w,
             DELETE_route(w.context, now))

DeleteIssue_part_006(via, header, id) ==
    LET w == Exported(via, header, id, now)
    IN Write(Call("DELETE /api/issues/:id (2)", via, header, id), w,
             DELETE_part_006(w.context, now))

AddComment(via, header, id, text) ==
    /\ ops < MaxOps
    /\ ops' = ops + 1
    /\ LET w == Exported(via, header, id, now)
           out == POST_comments(w.context, text, now)
       IN /\ comments' = IF w.invoke THEN Create(comments, out.created)
                         ELSE comments
          /\ auditLogs' = IF w.invoke THEN Create(auditLogs, out.entries)
                          ELSE auditLogs
          /\ last' = [Call("POST /api/issues/:id/comments", via, header, id)
                      EXCEPT
                        !.input = text,
                        !.invoked = w.invoke,
                        !.written = IF w.invoke THEN Len(out.entries) ELSE 0,
                        !.response = IF w.invoke THEN out.response
                                     ELSE w.response]
    /\ UNCHANGED issues
    /\ AuthUnchanged

\* a route that may write comments and audit entries
WriteComments(call, w, out) ==
    /\ ops < MaxOps
    /\ ops' = ops + 1
    /\ comments' = IF w.invoke THEN out.comments ELSE comments
    /\ auditLogs' = IF w.invoke THEN Create(auditLogs, out.entries)
                    ELSE auditLogs
    /\ last' = [call EXCEPT
                  !.invoked = w.invoke,
                  !.written = IF w.invoke THEN Len(out.entries) ELSE 0,
                  !.response = IF w.invoke THEN out.response
                               ELSE w.response]
    /\ UNCHANGED issues
    /\ AuthUnchanged

EditComment(via, header, id, text) ==
    LET w == Exported(via, header, id, now)
    IN WriteComments([NoCall EXCEPT !.fn = "PATCH /api/comments/:id",
                                    !.via = via,
                                    !.header = header, !.at = now,
                                    !.input = [id |-> id, text |-> text]],
                     w, PATCH_comment(w.context, text, now))

DeleteComment(via, header, id) ==
    LET w == Exported(via, header, id, now)
    IN WriteComments([NoCall EXCEPT !.fn = "DELETE /api/comments/:id",
                                    !.via = via,
                                    !.header = header, !.at = now,
                                    !.input = [id |-> id]],
                     w, DELETE_comment(w.context, now))

\* a route that only reads
Read(call, w, out) ==
    /\ ops < MaxOps
    /\ ops' = ops + 1
    /\ last' = [call EXCEPT
                  !.invoked = w.invoke,
                  !.result = IF w.invoke THEN out.timeline ELSE <<>>,
                  !.response = IF w.invoke THEN out.response
                               ELSE w.response]
    /\ UNCHANGED <<issues, comments, auditLogs>>
    /\ AuthUnchanged

GetTimeline(via, header, id, param) ==
    \E queryFails \in IF IsSet(RequestedLimit(param)) THEN {FALSE}
                      ELSE BOOLEAN :
        LET w == Exported(via, header, id, now)
        IN Read([Call("GET /api/issues/:id/timeline", via, header, id) EXCEPT
                    !.input = param],
                w, GET_timeline(w.context, param, queryFails))

GetStats(via, header) ==
    LET w == Exported(via, header, "", now)
    IN Read(Call("GET /api/stats", via, header, ""), w, GET_stats(w.context))

----------------------------------------------------------------------------
(* Calls of the middleware functions on their own *)

DataUnchanged == UNCHANGED <<issues, comments, auditLogs, ops>>

\* the times of the sequence that are later than t
Recent(times, t) == SelectSeq(times, LAMBDA u : u > t)

\* per key, the window the requests so far have opened, how many requests
\* it has seen, how many the window before it saw, and the times of the
\* requests permitted during the last windowMs; kept in the record of the
\* last rateLimit call
WindowsOf(call) ==
    IF call.fn = "rateLimit" THEN call.result
    ELSE [k \in RateKeys |-> Undefined]

\* the policy the limiter of this run was built with
PolicyOf(call) == call.input.config

\* await rateLimit(config)(request); timed: the times of the permitted
\* requests are kept as well
RateLimit(fwd, timed) ==
    LET config == PolicyOf(last)
        key == rateLimitKey(fwd)
        data == rateLimitData(rateLimitStore, key, config, now)
        response == rateLimitResponse(data, config, now)
        seen == WindowsOf(last)[key]
        earlier == IF IsSet(seen) THEN Val(seen).permits ELSE <<>>
        permits == IF ~timed THEN <<>>
                   ELSE Recent(IF IsSet(response) THEN earlier
                               ELSE Append(earlier, now),
                               now - config.windowMs)
        window == IF ~IsSet(seen)
                  THEN [resetTime |-> now + config.windowMs, n |-> 1,
                        before |-> 0, permits |-> permits]
                  ELSE IF now > Val(seen).resetTime
                  THEN [resetTime |-> now + config.windowMs, n |-> 1,
                        before |-> Val(seen).n, permits |-> permits]
                  ELSE [Val(seen) EXCEPT !.n = @ + 1, !.permits = permits]
    IN /\ data.count <= config.maxRequests + MaxDenied
       /\ rateLimitStore' = [rateLimitStore EXCEPT ![key] = Some(data)]
       /\ last' = [NoCall EXCEPT
                     !.fn = "rateLimit",
                     !.input = [config |-> config, key |-> key],
                     !.at = now,
                     !.result = [WindowsOf(last) EXCEPT ![key] = Some(window)],
                     !.invoked = ~IsSet(response),
                     !.response = IF IsSet(response) THEN Val(response)
                                  ELSE NoResponse]
       /\ UNCHANGED <<now, ticks, users, nextToken, req, rotated, failStreak,
                      gate>>
       /\ DataUnchanged

\* mutant: the sweep also removes the entries whose window ends now
cleanupRateLimitStore_Early ==
    /\ \E k \in RateKeys : /\ IsSet(rateLimitStore[k])
                           /\ now >= Val(rateLimitStore[k]).resetTime
    /\ rateLimitStore' =
          [k \in RateKeys |->
              IF IsSet(rateLimitStore[k])
                 /\ now >= Val(rateLimitStore[k]).resetTime
              THEN Undefined ELSE rateLimitStore[k]]
    /\ UNCHANGED <<now, ticks, users, nextToken, req, rotated, failStreak,
                   gate, dataVars>>

\* cleanupRateLimitStore(), run by setInterval
cleanupRateLimitStore ==
    /\ \E k \in RateKeys : /\ IsSet(rateLimitStore[k])
                           /\ now > Val(rateLimitStore[k]).resetTime
    /\ rateLimitStore' =
          [k \in RateKeys |->
              IF IsSet(rateLimitStore[k])
                 /\ now > Val(rateLimitStore[k]).resetTime
              THEN Undefined ELSE rateLimitStore[k]]
    /\ UNCHANGED <<now, ticks, users, nextToken, req, rotated, failStreak,
                   gate, dataVars>>

\* authMiddleware(request)
AuthMiddleware(header) ==
    /\ LET authResult == authMiddleware(header, now)
       IN last' = [NoCall EXCEPT !.fn = "authMiddleware",
                                 !.header = header, !.at = now,
                                 !.invoked = authResult.ok,
                                 !.result = authResult.user,
                                 !.response = authResult.response]
    /\ AuthUnchanged
    /\ DataUnchanged

\* verifyAccessToken(token)
VerifyAccessToken(token) ==
    /\ last' = [NoCall EXCEPT !.fn = "verifyAccessToken", !.input = token,
                              !.at = now,
                              !.result = verifyAccessToken(token, now)]
    /\ AuthUnchanged
    /\ DataUnchanged

----------------------------------------------------------------------------
(* The environment *)

\* the clock is followed up to this time
Horizon == 2 * REFRESH_TOKEN_EXPIRES_MS

\* the clock advances
Tick(steps) ==
    /\ ticks < MaxTicks
    /\ \E d \in steps : now + d <= Horizon /\ now' = now + d
    /\ ticks' = ticks + 1
    /\ UNCHANGED <<users, rateLimitStore, nextToken, req, rotated,
                   failStreak, gate, dataVars>>

\* the response has been delivered; the slot serves the next request
Respond(r) ==
    /\ req[r].pc = "done"
    /\ req' = [req EXCEPT ![r] = Idle]
    /\ UNCHANGED <<now, ticks, users, rateLimitStore, nextToken, rotated,
                   failStreak, gate, dataVars>>

\* token has been generated by a handler that has not answered yet
Undelivered(token) ==
    \E r \in Reqs : req[r].pc = "save" /\ req[r].newToken = Some(token)

\* the refreshToken cookies a client can present: none, one that was never
\* issued (0), or any that a response has carried
Cookies ==
    {Undefined} \cup {Some(t) : t \in {u \in 0..nextToken : ~Undelivered(u)}}

Init ==
    /\ now = 0
    /\ ticks = 0
    /\ users = [e \in Emails |-> NoUser]
    /\ rateLimitStore = [k \in RateKeys |-> Undefined]
    /\ nextToken = 0
    /\ req = [r \in Reqs |-> Idle]
    /\ rotated = {}
    /\ failStreak = [e \in Emails |-> 0]
    /\ gate = NoGate
    /\ issues = [id \in IssueIds |-> NoIssue]
    /\ comments = <<>>
    /\ auditLogs = <<>>
    /\ last = NoCall
    /\ ops = 0

RegistrableEmails == {raw \in RawEmails : ~IsEmail(raw)
                                          \/ NormalizeEmail(raw) \in Emails}

----------------------------------------------------------------------------
(* Logins one after the other: a request starts when no other is in flight *)

LoginSteps == {1, LOCKOUT_DURATION}

OneSlot == {"r1"}
OneClient == {<<"10.0.0.1", "10.0.0.2">>}

NextSeq ==
    \/ \E r \in OneSlot :
          \/ \E raw \in RegistrableEmails, pw \in Passwords :
                RegisterStart(r, raw, pw)
          \/ \E fwd \in OneClient, raw \in RawEmails, pw \in Passwords :
                LoginStart(r, fwd, raw, pw)
    \/ \E r \in OneSlot :
          \/ RegisterCreate(r) \/ RegisterSave(r)
          \/ LoginFind(r) \/ LoginCompare(r) \/ LoginIncrement(r)
          \/ LoginReset(r) \/ LoginSave(r)
          \/ Respond(r)
    \/ Tick(LoginSteps)

SpecSeq == Init /\ [][NextSeq]_vars

(* The same, for one account and the requests that name it as stored *)

NextLock ==
    \/ \E r \in OneSlot :
          \/ RegisterStart(r, "a@b.com", "Abcdef1!")
          \/ \E fwd \in OneClient, pw \in Passwords :
                LoginStart(r, fwd, "a@b.com", pw)
    \/ \E r \in OneSlot :
          \/ RegisterCreate(r) \/ RegisterSave(r)
          \/ LoginFind(r) \/ LoginCompare(r) \/ LoginIncrement(r)
          \/ LoginReset(r) \/ LoginSave(r)
          \/ Respond(r)
    \/ Tick(LoginSteps)

SpecLock == Init /\ [][NextLock]_vars

SpecRbac == Init /\ [][NextRbac]_vars

----------------------------------------------------------------------------
(* Logins that overlap: both slots serve requests at the same time, within *)
(* one rate-limit window                                                    *)

NextRace ==
    \/ \E r \in Reqs :
          \/ \E raw \in RegistrableEmails, pw \in Passwords :
                RegisterStart(r, raw, pw)
          \/ \E fwd \in OneClient, raw \in RawEmails, pw \in Passwords :
                LoginStart(r, fwd, raw, pw)
    \/ \E r \in Reqs :
          \/ RegisterCreate(r) \/ RegisterSave(r)
          \/ LoginFind(r) \/ LoginCompare(r) \/ LoginIncrement(r)
          \/ LoginReset(r) \/ LoginSave(r)
          \/ Respond(r)

SpecRace == Init /\ [][NextRace]_vars

----------------------------------------------------------------------------
(* The refresh-token lifecycle: registration, logins with the right        *)
(* password, refreshes and logouts, overlapping in the two slots            *)

Next ==
    \/ \E r \in Reqs :
          \/ RegisterStart(r, "a@b.com", "Abcdef1!")
          \/ \E fwd \in OneClient : LoginStart(r, fwd, "a@b.com", "Abcdef1!")
          \/ \E cookie \in Cookies : RefreshFind(r, cookie)
          \/ \E cookie \in Cookies : Logout(r, cookie)
    \/ \E r \in Reqs :
          \/ RegisterCreate(r) \/ RegisterSave(r)
          \/ LoginFind(r) \/ LoginCompare(r)
          \/ LoginReset(r) \/ LoginSave(r)
          \/ RefreshSave(r)
          \/ Respond(r)

Spec == Init /\ [][Next]_vars

(* The same requests one at a time, with the clock advancing so that       *)
(* refresh tokens expire                                                    *)

TokenSteps == {1, REFRESH_TOKEN_EXPIRES_MS - 1}

NextExpiry ==
    \/ \E r \in OneSlot :
          \/ RegisterStart(r, "a@b.com", "Abcdef1!")
          \/ \E fwd \in OneClient : LoginStart(r, fwd, "a@b.com", "Abcdef1!")
          \/ \E cookie \in Cookies : RefreshFind(r, cookie)
          \/ \E cookie \in Cookies : Logout(r, cookie)
    \/ \E r \in OneSlot :
          \/ RegisterCreate(r) \/ RegisterSave(r)
          \/ LoginFind(r) \/ LoginCompare(r)
          \/ LoginReset(r) \/ LoginSave(r)
          \/ RefreshSave(r)
          \/ Respond(r)
    \/ Tick(TokenSteps)

SpecExpiry == Init /\ [][NextExpiry]_vars

----------------------------------------------------------------------------
(* The rate limiter on its own: one policy per run, the clock stepping to
   the edges of a window *)

RATE_LIMITS_SMALL == [windowMs |-> 1000, maxRequests |-> 1]
Policies == {RATE_LIMITS_AUTH, RATE_LIMITS_SMALL}

\* the clock steps to the end of a window opened now, or just past it
RateSteps == {1, PolicyOf(last).windowMs}

InitRate ==
    /\ now = 0
    /\ ticks = 0
    /\ users = [e \in Emails |-> NoUser]
    /\ rateLimitStore = [k \in RateKeys |-> Undefined]
    /\ nextToken = 0
    /\ req = [r \in Reqs |-> Idle]
    /\ rotated = {}
    /\ failStreak = [e \in Emails |-> 0]
    /\ gate = NoGate
    /\ issues = [id \in IssueIds |-> NoIssue]
    /\ comments = <<>>
    /\ auditLogs = <<>>
    /\ ops = 0
    /\ \E config \in Policies :
          last = [NoCall EXCEPT !.input = [config |-> config, key |-> <<>>]]

NextRate ==
    \/ \E fwd \in Forwarded : RateLimit(fwd, FALSE)
    \/ cleanupRateLimitStore
    \/ Tick(RateSteps)

SpecRate == InitRate /\ [][NextRate]_vars

(* One client's requests, with the times of the permitted ones kept *)

NextWindow ==
    \/ \E fwd \in OneClient : RateLimit(fwd, TRUE)
    \/ Tick(RateSteps)

SpecWindow == InitRate /\ [][NextWindow]_vars

----------------------------------------------------------------------------
(* The bearer-token functions on their own, the clock stepping across the
   expiry of the tokens in circulation *)

AuthSteps == {1000, JWT_EXPIRES_MS - 1000, JWT_EXPIRES_MS}

NextAuth ==
    \/ \E header \in Headers(now) : AuthMiddleware(header)
    \/ \E token \in Credentials(now) : VerifyAccessToken(token)
    \/ Tick(AuthSteps)

SpecAuth == Init /\ [][NextAuth]_vars

----------------------------------------------------------------------------
(* The issue routes, called by clients of every role with live, expired and
   unusable credentials *)

\* the server has run for longer than an access token lives
InitIssues ==
    /\ now = JWT_EXPIRES_MS + 1000
    /\ ticks = 0
    /\ users = [e \in Emails |-> NewUser(e, "Abcdef1!")]
    /\ rateLimitStore = [k \in RateKeys |-> Undefined]
    /\ nextToken = 0
    /\ req = [r \in Reqs |-> Idle]
    /\ rotated = {}
    /\ failStreak = [e \in Emails |-> 0]
    /\ gate = NoGate
    /\ issues = [id \in IssueIds |-> NoIssue]
    /\ comments = <<>>
    /\ auditLogs = <<>>
    /\ last = NoCall
    /\ ops = 0

\* a live token of each role, and the ways a credential can be unusable
BearerTokens == {Header("Bearer ", generateAccessToken(p, now)) :
                    p \in Identities}

IssueHeaders ==
    BearerTokens
    \cup {Undefined, Header("Bearer ", Malformed),
          Header("Token ", generateAccessToken(
                               [userId |-> UserId("a@b.com"),
                                email |-> "a@b.com", role |-> "ADMIN"], now)),
          Header("Bearer ", generateAccessToken(
                                [userId |-> UserId("a@b.com"),
                                 email |-> "a@b.com", role |-> "ADMIN"], 0))}

\* a few update bodies: one field, two fields, an unassignment
SampleBodies ==
    {[NoUpdate EXCEPT !.status = Some("RESOLVED")],
     [NoUpdate EXCEPT !.title = Some("Login fails on Safari")],
     [NoUpdate EXCEPT !.priority = Some("HIGH"),
                      !.tags = Some(<<"ui", "api">>)],
     [NoUpdate EXCEPT !.assignedTo = Some(Undefined)]}

Routes(via, headers, ids, bodies) ==
    \/ \E header \in headers, body \in CreateBodies :
          CreateIssue(via, header, body)
    \/ \E header \in headers, id \in ids, body \in bodies :
          PatchIssue(via, header, id, body)
    \/ \E header \in headers, id \in ids, body \in bodies :
          PatchIssue_part_006(via, header, id, body)
    \/ \E header \in headers, id \in ids : DeleteIssue(via, header, id)
    \/ \E header \in headers, id \in ids :
          DeleteIssue_part_006(via, header, id)
    \/ \E header \in headers, id \in ids, text \in CommentTexts :
          AddComment(via, header, id, text)
    \/ \E header \in headers, id \in RawCommentIds, text \in CommentTexts :
          EditComment(via, header, id, text)
    \/ \E header \in headers, id \in RawCommentIds :
          DeleteComment(via, header, id)
    \/ \E header \in headers, id \in ids, param \in LimitParams :
          GetTimeline(via, header, id, param)
    \/ \E header \in headers : GetStats(via, header)

NextIssues == Routes("withAuth", IssueHeaders, RawIds, SampleBodies)

SpecIssues == InitIssues /\ [][NextIssues]_vars

----------------------------------------------------------------------------
(* The handlers of the issue routes, applied to the params of the route for
   authenticated clients and stored issues, with every update body of up to
   MaxFields fields *)

\* the ids of the issues created so far
StoredIds == {id \in IssueIds : issues[id].exists}

NextHandlers == Routes("handler", BearerTokens, StoredIds, Bodies)

SpecHandlers == InitIssues /\ [][NextHandlers]_vars

----------------------------------------------------------------------------
(* The timeline handler, applied to the params of the route, for an issue
   whose audit trail is short or longer than a page *)

\* the numbers of entries the trail of the issue starts with
TrailLengths == {1, 2, MAX_TIMELINE + 1}

\* the k-th comment added to the issue, one ms after the one before
SeededComment(k) ==
    [id |-> CommentId(k), issueId |-> "i1", userId |-> UserId("a@b.com"),
     text |-> Chars(3, "x"), isEdited |-> FALSE, editedAt |-> Undefined,
     deletedAt |-> Undefined, createdAt |-> k]

\* the trail POST /api/issues and n - 1 times POST .../comments leave
SeededTrail(n) ==
    [k \in 1..n |->
        IF k = 1
        THEN logAction("i1", UserId("a@b.com"), "CREATED",
                 [NoDetails EXCEPT !.metadata =
                     Some([title |-> "Login fails", type |-> "BUG",
                           priority |-> "MEDIUM"])], 0)
        ELSE logAction("i1", UserId("a@b.com"), "COMMENTED",
                 [NoDetails EXCEPT !.metadata =
                     Some([commentId |-> CommentId(k - 1),
                           preview |-> Preview(Chars(3, "x"), 50)])],
                 k - 1)]

InitTimeline ==
    /\ now = JWT_EXPIRES_MS + 1000
    /\ ticks = 0
    /\ users = [e \in Emails |-> NewUser(e, "Abcdef1!")]
    /\ rateLimitStore = [k \in RateKeys |-> Undefined]
    /\ nextToken = 0
    /\ req = [r \in Reqs |-> Idle]
    /\ rotated = {}
    /\ failStreak = [e \in Emails |-> 0]
    /\ gate = NoGate
    /\ last = NoCall
    /\ ops = 0
    /\ \E n \in TrailLengths :
          /\ issues =
                [id \in IssueIds |->
                    IF id = "i1"
                    THEN NewIssue([title |-> "Login fails",
                                   description |-> Chars(12, "a"),
                                   type |-> "BUG", priority |-> Undefined,
                                   tags |-> Undefined,
                                   assignedTo |-> Undefined],
                                  [userId |-> UserId("a@b.com")], 0)
                    ELSE NoIssue]
          /\ comments = [k \in 1..(n - 1) |-> SeededComment(k)]
          /\ auditLogs = SeededTrail(n)

NextTimeline ==
    \/ \E header \in BearerTokens, id \in RawIds, param \in LimitParams :
          GetTimeline("handler", header, id, param)
    \/ \E header \in BearerTokens, id \in RawIds, text \in CommentTexts :
          AddComment("handler", header, id, text)

SpecTimeline == InitTimeline /\ [][NextTimeline]_vars

----------------------------------------------------------------------------
(* Properties of the lockout state machine, for logins made one at a time *)

\* request r has returned from a login whose password check failed
FailedPassword(r) ==
    req[r].pc = "done" /\ req[r].route = "login" /\ IsSet(req[r].checkedAt)

\* the account the body of request r names
UserOf(r) == NormalizeEmail(req[r].body.email)

\* request r carries the password of the account it names
CorrectPassword(r) ==
    /\ IsEmail(req[r].body.email)
    /\ UserOf(r) \in Emails
    /\ users[UserOf(r)].exists
    /\ ComparePassword(req[r].body.password, users[UserOf(r)].password)

IssuesTokens(response) ==
    IsSet(response.data.accessToken) \/ IsSet(response.data.cookie)

C4_Counts ==
    \A e \in Emails : users[e].exists =>
        /\ failStreak[e] < MAX_LOGIN_ATTEMPTS =>
              /\ ~IsSet(users[e].lockUntil)
              /\ users[e].loginAttempts = failStreak[e]
        /\ failStreak[e] = MAX_LOGIN_ATTEMPTS =>
              /\ IsSet(users[e].lockUntil)
              /\ users[e].loginAttempts = MAX_LOGIN_ATTEMPTS

C4_LockTime ==
    \A r \in Reqs :
        FailedPassword(r) /\ failStreak[req[r].email] = MAX_LOGIN_ATTEMPTS =>
            /\ users[req[r].email].lockUntil =
                  Some(Val(req[r].checkedAt) + LOCKOUT_DURATION)
            /\ isLocked(users[req[r].email], Val(req[r].checkedAt))

C4_RejectedWhileLocked ==
    \A r \in Reqs :
        ( /\ req[r].pc = "find" /\ req[r].route = "login"
          /\ req'[r].pc # "find"
          /\ CorrectPassword(r)
          /\ IsSet(users[req[r].email].lockUntil)
          /\ now < Val(users[req[r].email].lockUntil) )
        => /\ req'[r].pc = "done"
           /\ ~req'[r].resp.success
           /\ ~IssuesTokens(req'[r].resp)
           /\ users' = users
           /\ nextToken' = nextToken

\* C4: starting from an unlocked account with loginAttempts 0, fewer than
\* MAX_LOGIN_ATTEMPTS consecutive failed password checks leave the account
\* unlocked, the MAX_LOGIN_ATTEMPTS-th locks it until the time of that check
\* plus LOCKOUT_DURATION, and a login with the correct password that reads
\* the account while now < lockUntil is rejected and issues no tokens.
C4_Lockout ==
    /\ [](C4_Counts /\ C4_LockTime)
    /\ [][C4_RejectedWhileLocked]_vars

\* a correct password has been answered with the account-locked response
\* after exactly MAX_LOGIN_ATTEMPTS failures
C4_Witness ==
    \E r \in Reqs :
        /\ req[r].pc = "done" /\ req[r].route = "login"
        /\ CorrectPassword(r)
        /\ failStreak[UserOf(r)] = MAX_LOGIN_ATTEMPTS
        /\ req[r].resp.code = "ACCOUNT_LOCKED"

\* the password check of r failed on a document whose lock had elapsed
FailedAfterLockElapsed(r) ==
    /\ FailedPassword(r)
    /\ IsSet(req[r].doc.lockUntil)
    /\ Val(req[r].doc.lockUntil) < Val(req[r].checkedAt)

\* C5: a failed login made after the lock has elapsed leaves the account
\* with loginAttempts = 1 and no lockUntil; and an account carries a
\* lockUntil only once its loginAttempts have reached MAX_LOGIN_ATTEMPTS.
C5_ResetAfterLockElapsed ==
    /\ \A r \in Reqs : FailedAfterLockElapsed(r) =>
          /\ users[req[r].email].loginAttempts = 1
          /\ ~IsSet(users[req[r].email].lockUntil)
    /\ \A e \in Emails :
          IsSet(users[e].lockUntil) =>
              users[e].loginAttempts >= MAX_LOGIN_ATTEMPTS

C5_Witness == \E r \in Reqs : FailedAfterLockElapsed(r)

\* C6: when a login has succeeded the stored account has loginAttempts = 0
\* and no lockUntil, whatever failures came before.
C6_SuccessResets ==
    \A r \in Reqs :
        req[r].pc = "done" /\ req[r].route = "login" /\ req[r].resp.success
        => /\ users[req[r].email].loginAttempts = 0
           /\ ~IsSet(users[req[r].email].lockUntil)

\* a login succeeded on an account that had failures and an elapsed lock
C6_Witness ==
    \E r \in Reqs :
        /\ req[r].pc = "done" /\ req[r].route = "login" /\ req[r].resp.success
        /\ req[r].doc.loginAttempts >= MAX_LOGIN_ATTEMPTS
        /\ IsSet(req[r].doc.lockUntil)

\* request r is a login with the correct password, answered while the
\* account is locked by MAX_LOGIN_ATTEMPTS consecutive failures
SixthLogin(r) ==
    /\ req[r].pc = "done" /\ req[r].route = "login"
    /\ CorrectPassword(r)
    /\ failStreak[UserOf(r)] = MAX_LOGIN_ATTEMPTS
    /\ IsSet(users[UserOf(r)].lockUntil)
    /\ now < Val(users[UserOf(r)].lockUntil)

AccountLockedResponse(response) ==
    /\ response.status = 423
    /\ response.code = "ACCOUNT_LOCKED"
    /\ IsSet(response.data.minutes)
    /\ Val(response.data.minutes) >= 1
    /\ Val(response.data.minutes) * 60000 <= LOCKOUT_DURATION

C8_WitnessLocked ==
    \E r \in Reqs : SixthLogin(r) /\ req[r].resp.code = "ACCOUNT_LOCKED"

----------------------------------------------------------------------------
(* Overlapping logins *)

\* C7: with failed logins for one account overlapping, the stored
\* loginAttempts counts every failed password check, and the account is
\* locked as soon as the stored count has reached MAX_LOGIN_ATTEMPTS.
C7_ConcurrentFailuresLock ==
    \A e \in Emails : users[e].exists =>
        /\ users[e].loginAttempts = failStreak[e]
        /\ users[e].loginAttempts >= MAX_LOGIN_ATTEMPTS =>
              /\ IsSet(users[e].lockUntil)
              /\ now < Val(users[e].lockUntil)

----------------------------------------------------------------------------
(* Refresh-token rotation *)

Stored(token) ==
    \E e \in Emails : users[e].exists
                      /\ HasToken(users[e], hashRefreshToken(token))

\* in this step slot r takes up a refresh request presenting token
StartsRefresh(r, token) ==
    /\ req[r].pc = "idle"
    /\ req'[r].route = "refresh"
    /\ req'[r].cookie = Some(token)

RejectedUnauthenticated(local) ==
    /\ local.pc = "done"
    /\ local.resp.code = "AuthenticationError"
    /\ ~IssuesTokens(local.resp)

\* C1: once a refresh has succeeded with token T, the hash of T is in no
\* stored refreshTokens set again, and every refresh request that presents
\* T from then on is rejected with an authentication failure.
C1_SingleUse ==
    /\ [](\A t \in rotated : ~Stored(t))
    /\ [][\A r \in Reqs : \A t \in rotated :
            StartsRefresh(r, t) =>
                /\ RejectedUnauthenticated(req'[r])
                /\ UNCHANGED <<users, nextToken>>]_vars

\* a rotated token has been presented again and rejected
C1_Witness ==
    \E r \in Reqs :
        /\ req[r].route = "refresh" /\ IsSet(req[r].cookie)
        /\ Val(req[r].cookie) \in rotated
        /\ RejectedUnauthenticated(req[r])

\* C2: of two overlapping refresh requests presenting the same valid
\* token, one rotates it and the other is answered AuthenticationError;
\* one new hash is stored.
C2_ReplayRace ==
    \A r, q \in Reqs :
        ( /\ r # q
          /\ req[r].pc = "done" /\ req[r].route = "refresh"
          /\ req[q].pc = "done" /\ req[q].route = "refresh"
          /\ IsSet(req[r].cookie) /\ req[q].cookie = req[r].cookie
          /\ req[r].resp.success )
        => /\ RejectedUnauthenticated(req[q])
           /\ Stored(Val(req[r].newToken))

\* every stored entry for the token has expired at time t
ExpiredAt(token, t) ==
    /\ Stored(token)
    /\ \A e \in Emails : \A i \in 1..Len(users[e].refreshTokens) :
          users[e].refreshTokens[i].token = hashRefreshToken(token)
              => users[e].refreshTokens[i].expiresAt <= t

\* C3: a refresh request presenting a token whose stored expiresAt is not
\* in the future is rejected with an authentication failure and issues no
\* tokens, whatever other entries the account holds.
C3_ExpiredNeverAccepted ==
    [][\A r \in Reqs : \A t \in 1..nextToken :
          StartsRefresh(r, t) /\ ExpiredAt(t, now) =>
              /\ RejectedUnauthenticated(req'[r])
              /\ UNCHANGED <<users, nextToken>>]_vars

----------------------------------------------------------------------------
(* The RBAC gate *)

RoleSet(allowedRoles) == {allowedRoles[i] : i \in 1..Len(allowedRoles)}

\* result is the error response built from an AuthorizationError
DeniedAuthorization(result) ==
    /\ IsSet(result)
    /\ Val(result).code = "AuthorizationError"
    /\ ~Val(result).success

\* the roles the gate's last call allowed
GateAllowed ==
    IF gate.fn = "requireAdmin" THEN {"ADMIN"}
    ELSE IF gate.fn = "requireManagerOrAdmin" THEN {"MANAGER", "ADMIN"}
    ELSE RoleSet(gate.allowedRoles)

\* C9: checkRole (and requireAdmin, requireManagerOrAdmin) returns null
\* exactly when the user's role is one of the allowed roles and an
\* AuthorizationError response otherwise; ADMIN is denied by a MANAGER-only
\* check.
C9_CheckRoleExact ==
    gate.fn \in {"checkRole", "requireAdmin", "requireManagerOrAdmin"} =>
        /\ gate.context.user.role \in GateAllowed => ~IsSet(gate.result)
        /\ gate.context.user.role \notin GateAllowed =>
              DeniedAuthorization(gate.result)

\* ADMIN has been put to a MANAGER-only check
C9_Witness ==
    /\ gate.fn = "checkRole"
    /\ gate.allowedRoles = <<"MANAGER">>
    /\ gate.context.user.role = "ADMIN"
    /\ DeniedAuthorization(gate.result)

\* C10: withRole answers a role outside allowedRoles with checkRole's
\* AuthorizationError response without calling the handler, and otherwise
\* calls the handler exactly once, with the request and context it was
\* given, and returns its answer.
C10_WithRoleGate ==
    gate.fn = "withRole" =>
        IF gate.context.user.role \in RoleSet(gate.allowedRoles)
        THEN /\ gate.calls = <<[request |-> gate.request,
                                context |-> gate.context]>>
             /\ gate.result = Some(gate.handlerResponse)
        ELSE /\ gate.calls = <<>>
             /\ DeniedAuthorization(gate.result)

\* a wrapped handler has been kept from a USER
C10_Witness ==
    /\ gate.fn = "withRole"
    /\ gate.context.user.role = "USER"
    /\ gate.allowedRoles = <<"MANAGER", "ADMIN">>
    /\ gate.calls = <<>>

----------------------------------------------------------------------------
(* Properties of the issue routes *)

\* the identity the credential of a call authenticates
Caller(call) == authMiddleware(call.header, call.at).user

IsUpdate(call) ==
    call.fn \in {"PATCH /api/issues/:id", "PATCH /api/issues/:id (2)"}

\* an authenticated client's update of an issue that is stored and not
\* deleted
UpdateOfStored(call) ==
    /\ IsUpdate(call)
    /\ call.invoked
    /\ call.before.exists
    /\ ~IsSet(call.before.deletedAt)

\* a body the schema accepts, whose assignee exists and whose description
\* the model accepts too
IsSavable(body) ==
    /\ IsValidUpdate(body)
    /\ Has(body, "description") => Len(Val(body.description)) >= 10
    /\ (Has(body, "assignedTo") /\ IsSet(Val(body.assignedTo))) =>
           UserExists(Val(Val(body.assignedTo)))

\* C11: a well-formed update by a USER that names any field other than
\* status is rejected with a 403 error, leaves the issue as it was and writes
\* no audit entry; a MANAGER's or an ADMIN's update of any fields succeeds.
C11_FieldLevelAuthorization ==
    UpdateOfStored(last) =>
        /\ (Caller(last).role = "USER"
              /\ IsValidUpdate(last.body)
              /\ hasRestrictedFields(last.body)) =>
               /\ ~last.response.success
               /\ last.response.status = 403
               /\ issues[last.id] = last.before
               /\ last.written = 0
        /\ (Caller(last).role \in {"MANAGER", "ADMIN"}
              /\ IsSavable(last.body)) =>
               last.response.success

\* the audit entries the last call wrote
WrittenBy(call) ==
    SubSeq(auditLogs, Len(auditLogs) - call.written + 1, Len(auditLogs))

\* the entries among them that name the field
EntriesFor(call, f) ==
    SelectSeq(WrittenBy(call), LAMBDA e : e.field = Some(f))

\* the request gives the field a value other than the one the issue had;
\* tag lists are compared without regard to order
Requested(call, f) ==
    /\ Has(call.body, f)
    /\ IF f = "tags"
       THEN SortTags(Val(call.body.tags)) # SortTags(call.before.tags)
       ELSE Val(call.body[f]) # call.before[f]

\* the entry carries the field's old and new value; a tag list may be given
\* sorted and joined, an assignee by id or as 'unassigned'
CarriesValues(call, f, e) ==
    IF f = "tags"
    THEN /\ e.oldValue \in {Some(JoinTags(call.before.tags)),
                            Some(JoinTags(SortTags(call.before.tags)))}
         /\ e.newValue \in {Some(JoinTags(Val(call.body.tags))),
                            Some(JoinTags(SortTags(Val(call.body.tags))))}
    ELSE IF f = "assignedTo"
    THEN /\ e.oldValue \in {call.before.assignedTo,
                            OrUnassigned(call.before.assignedTo)}
         /\ e.newValue \in {Val(call.body.assignedTo),
                            OrUnassigned(Val(call.body.assignedTo))}
    ELSE /\ e.oldValue = Some(call.before[f])
         /\ e.newValue = Some(Val(call.body[f]))

SuccessfulUpdate(call) == UpdateOfStored(call) /\ call.response.success

\* C18: a successful update writes exactly one audit entry for each field
\* whose requested value differs from the prior value, carrying the old and
\* the new value, and no entry for any other field.
C18_OneEntryPerChange ==
    SuccessfulUpdate(last) =>
        /\ \A f \in DOMAIN FieldInputs :
               IF Requested(last, f)
               THEN /\ Len(EntriesFor(last, f)) = 1
                    /\ CarriesValues(last, f, EntriesFor(last, f)[1])
               ELSE Len(EntriesFor(last, f)) = 0
        /\ last.written =
               Cardinality({f \in DOMAIN FieldInputs : Requested(last, f)})

\* the action the entry of a change is to be tagged with
ExpectedAction(call, e) ==
    IF e.field = Some("status") THEN "STATUS_CHANGED"
    ELSE IF e.field = Some("priority") THEN "PRIORITY_CHANGED"
    ELSE IF e.field = Some("assignedTo")
    THEN IF IsSet(Val(call.body.assignedTo)) THEN "ASSIGNED"
         ELSE "UNASSIGNED"
    ELSE "UPDATED"

\* a MANAGER asks for priority HIGH, and nothing else, on an issue of
\* priority LOW
ManagerRaisesPriority(call) ==
    /\ Caller(call).role = "MANAGER"
    /\ call.before.priority = "LOW"
    /\ call.body = [NoUpdate EXCEPT !.priority = Some("HIGH")]

\* C19: the entries of a successful update are tagged STATUS_CHANGED for
\* status, PRIORITY_CHANGED for priority, UNASSIGNED or ASSIGNED for the
\* assignee and UPDATED for the other fields; a MANAGER changing priority
\* from LOW to HIGH produces exactly one entry, tagged PRIORITY_CHANGED, with
\* oldValue LOW and newValue HIGH.
C19_ActionTagging ==
    SuccessfulUpdate(last) =>
        /\ \A i \in 1..Len(WrittenBy(last)) :
               WrittenBy(last)[i].action =
                   ExpectedAction(last, WrittenBy(last)[i])
        /\ ManagerRaisesPriority(last) =>
               /\ Len(WrittenBy(last)) = 1
               /\ WrittenBy(last)[1].action = "PRIORITY_CHANGED"
               /\ WrittenBy(last)[1].field = Some("priority")
               /\ WrittenBy(last)[1].oldValue = Some("LOW")
               /\ WrittenBy(last)[1].newValue = Some("HIGH")

\* the last call read a timeline and was answered with one
TimelineReturned(call) ==
    call.fn = "GET /api/issues/:id/timeline" /\ call.response.success

\* C20: the timeline a retrieval returns holds entries of the issue, newest
\* first, starting with the newest, and never more than 100 of them,
\* whatever the requested limit and the number of stored entries.
C20_TimelineCapped ==
    TimelineReturned(last) =>
        /\ Len(last.result) <= MAX_TIMELINE
        /\ \A i \in 1..Len(last.result) :
               /\ last.result[i].issueId = last.id
               /\ i > 1 =>
                      last.result[i - 1].createdAt >= last.result[i].createdAt
        /\ \A i \in 1..Len(EntriesOf(last.id)) :
               /\ last.result # <<>>
               /\ EntriesOf(last.id)[i].createdAt <= last.result[1].createdAt

----------------------------------------------------------------------------
(* Properties of the rate limiter *)

\* the last call was rateLimit(config)(request)
IsRateLimit(call) == call.fn = "rateLimit"

\* the window the last request fell in, and its number in that window
WindowOf(call) == Val(WindowsOf(call)[call.input.key])

\* the Retry-After seconds of a deny decision
RetryAfterOf(call) == Val(call.response.data.headers).retryAfter

\* C12: with maxRequests = N, a request is permitted exactly when it is one
\* of the first N of its key's window, and every denied request carries
\* retryAfter = ceil((resetTime - now) / 1000), which is greater than 0.
C12_Quota ==
    IsRateLimit(last) =>
        /\ last.invoked <=> WindowOf(last).n <= PolicyOf(last).maxRequests
        /\ ~last.invoked =>
               /\ last.response.code = "RateLimitError"
               /\ RetryAfterOf(last) =
                      Ceil(WindowOf(last).resetTime - last.at, 1000)
               /\ RetryAfterOf(last) > 0

\* the step is a call of rateLimit by the client key
RateLimitStep(key) ==
    /\ last' # last
    /\ IsRateLimit(last')
    /\ last'.input.key = key

\* the key's last window is over: the clock has passed its resetTime
WindowElapsed(key) ==
    /\ IsSet(WindowsOf(last)[key])
    /\ now > Val(WindowsOf(last)[key]).resetTime

\* C13: once a key's window has elapsed, the key's next request stores a
\* new window with count 1 and is permitted, whatever the count of the
\* window before it was.
C13_Recovery ==
    [][\A key \in RateKeys :
          (RateLimitStep(key) /\ WindowElapsed(key)) =>
              /\ rateLimitStore'[key] =
                     Some([count |-> 1,
                           resetTime |-> now + PolicyOf(last).windowMs])
              /\ last'.invoked]_vars

\* a key whose window had denied requests is served again in a new window
C13_Witness ==
    /\ IsRateLimit(last)
    /\ last.input.key # <<>>
    /\ WindowOf(last).n = 1
    /\ WindowOf(last).before > PolicyOf(last).maxRequests
    /\ last.invoked

----------------------------------------------------------------------------
(* Properties of the audit trail *)

\* the routes the model serves
RouteNames ==
    {"POST /api/issues", "PATCH /api/issues/:id",
     "PATCH /api/issues/:id (2)", "DELETE /api/issues/:id",
     "DELETE /api/issues/:id (2)", "POST /api/issues/:id/comments",
     "PATCH /api/comments/:id", "DELETE /api/comments/:id",
     "GET /api/issues/:id/timeline", "GET /api/stats"}

\* every entry of the audit trail is still there, in its place, unchanged
AuditKept ==
    /\ Len(auditLogs') >= Len(auditLogs)
    /\ SubSeq(auditLogs', 1, Len(auditLogs)) = auditLogs

\* C17: over every sequence of API operations an audit entry, once written,
\* is never modified or removed: the trail only grows.
C17_AppendOnly == [][AuditKept]_vars

\* a second entry has been written after the first, and a further request
\* has been served since
C17_Witness ==
    /\ Len(auditLogs) >= 2
    /\ last.fn \in RouteNames
    /\ last.written > 0

----------------------------------------------------------------------------
(* Properties of the bearer-token gate *)

\* the step is a request to one of the wrapped routes
RouteStep == ops' # ops /\ last'.fn \in RouteNames

\* the header carries 'Bearer ' and an access token the server signed that
\* has not expired at time t
ValidBearer(header, t) ==
    /\ IsSet(header)
    /\ Val(header).prefix = "Bearer "
    /\ Val(header).rest.kind = "jwt"
    /\ Val(header).rest.alg = "HS256"
    /\ Val(header).rest.secret = JWT_SECRET
    /\ Seconds(t) < Val(header).rest.exp

\* C14: a wrapped route calls its handler only for a 'Bearer ' credential
\* that verifies as an unexpired access token; for any other header it
\* answers with an authentication failure, does not call the handler and
\* changes no persisted state.
C14_WithAuthGate ==
    [][RouteStep =>
          /\ last'.invoked => ValidBearer(last'.header, last'.at)
          /\ ~ValidBearer(last'.header, last'.at) =>
                 /\ ~last'.invoked
                 /\ ~last'.response.success
                 /\ last'.response.code = "AuthenticationError"
                 /\ UNCHANGED <<issues, comments, auditLogs, users>>]_vars

\* an update of a stored issue carrying an expired token has been turned
\* away
C14_Witness ==
    /\ last.fn = "PATCH /api/issues/:id"
    /\ last.before.exists
    /\ IsSet(last.header)
    /\ Val(last.header).prefix = "Bearer "
    /\ Val(last.header).rest.kind = "jwt"
    /\ Seconds(last.at) >= Val(last.header).rest.exp
    /\ ~last.invoked
    /\ last.response.code = "AuthenticationError"
    /\ auditLogs # <<>>

\* the middleware turned the request away
AuthFailure(call) == call.fn = "authMiddleware" /\ ~call.invoked

\* C15: the middleware's failure response (status, code and message) is the
\* one it gives for a missing header, whether the credential is missing, has
\* a malformed prefix, is malformed or is expired.
C15_UninformativeFailures ==
    AuthFailure(last) =>
        /\ last.response.status =
               authMiddleware(Undefined, last.at).response.status
        /\ last.response.code =
               authMiddleware(Undefined, last.at).response.code
        /\ last.response.message =
               authMiddleware(Undefined, last.at).response.message

\* the time in ms at which the token's exp claim is reached
ExpiryOf(token) == token.exp * 1000

\* the payload of the claims verifyAccessToken returned
PayloadOf(result) ==
    [userId |-> Val(result).userId, email |-> Val(result).email,
     role |-> Val(result).role]

\* C16: verifyAccessToken returns the payload generateAccessToken was given
\* at every time before the token's expiry, null at every time after it, and
\* null for every token generateAccessToken did not produce with the server
\* secret.
C16_RoundTrip ==
    last.fn = "verifyAccessToken" =>
        /\ (last.input \in AccessTokens /\ last.at < ExpiryOf(last.input)) =>
               /\ IsSet(last.result)
               /\ PayloadOf(last.result) = last.input.payload
        /\ (last.input \in AccessTokens /\ last.at > ExpiryOf(last.input)) =>
               last.result = Undefined
        /\ last.input \notin AccessTokens => last.result = Undefined

\* a token has been verified one second before its expiry
C16_Witness ==
    /\ last.fn = "verifyAccessToken"
    /\ last.input \in AccessTokens
    /\ last.at = ExpiryOf(last.input) - 1000
    /\ IsSet(last.result)

\* a token has been refused after its expiry
C16_WitnessExpired ==
    /\ last.fn = "verifyAccessToken"
    /\ last.input \in AccessTokens
    /\ last.at > ExpiryOf(last.input)
    /\ last.result = Undefined

----------------------------------------------------------------------------
(* Logout *)

\* request r has returned from a logout that presented token
LoggedOut(r, token) ==
    /\ req[r].pc = "done" /\ req[r].route = "logout"
    /\ req[r].cookie = Some(token)

\* C21: once a logout presenting token T has returned, the hash of T is in
\* no user's stored refreshTokens set, and every refresh request that
\* presents T from then on is rejected with an authentication failure.
C21_LogoutInvalidates ==
    /\ [](\A r \in Reqs : \A t \in 1..nextToken :
             LoggedOut(r, t) => ~Stored(t))
    /\ [][\A r, q \in Reqs : \A t \in 1..nextToken :
             LoggedOut(r, t) /\ StartsRefresh(q, t) =>
                 /\ RejectedUnauthenticated(req'[q])
                 /\ UNCHANGED <<users, nextToken>>]_vars

----------------------------------------------------------------------------
(* Audit coverage of the mutating routes *)

MutatingRoutes ==
    {"POST /api/issues", "PATCH /api/issues/:id", "PATCH /api/issues/:id (2)",
     "DELETE /api/issues/:id", "DELETE /api/issues/:id (2)",
     "POST /api/issues/:id/comments", "PATCH /api/comments/:id",
     "DELETE /api/comments/:id"}

\* the issues whose stored state, or one of whose comments, this step changed
Touched ==
    {id \in IssueIds : issues'[id] # issues[id]}
    \cup {comments'[i].issueId : i \in {j \in 1..Len(comments') :
             j > Len(comments) \/ comments'[j] # comments[j]}}

\* this step appended an entry for the issue in the name of the caller
Audited(id) ==
    \E i \in (Len(auditLogs) + 1)..Len(auditLogs') :
        /\ auditLogs'[i].issueId = id
        /\ auditLogs'[i].userId = Caller(last').userId

\* C22: a create, update or delete of an issue, or an add, edit or delete
\* of a comment, that answers success and changed a stored issue or comment
\* has appended an audit entry for that issue in the name of the caller.
C22_MutationsAudited ==
    [][(RouteStep /\ last'.fn \in MutatingRoutes /\ last'.response.success)
          => \A id \in Touched : Audited(id)]_vars

----------------------------------------------------------------------------
(* The stored account *)

\* C23: in every state, an account that is not locked (no lockUntil, or a
\* lockUntil that is not in the future) has loginAttempts in
\* 0..MAX_LOGIN_ATTEMPTS - 1; loginAttempts >= MAX_LOGIN_ATTEMPTS implies
\* the account is locked now.
C23_AccountInvariant ==
    \A e \in Emails :
        users[e].exists /\ ~isLocked(users[e], now) =>
            users[e].loginAttempts \in 0..(MAX_LOGIN_ATTEMPTS - 1)

----------------------------------------------------------------------------
(* The rate limiter over a rolling interval *)

\* the requests of the key that were permitted in the windowMs up to now
PermittedRecently(call) == WindowOf(call).permits

\* C24: for every client key and policy (windowMs, maxRequests), every
\* interval of length windowMs, wherever it starts, holds at most
\* maxRequests permitted requests of the key: when a request is answered,
\* the windowMs that end with it hold at most maxRequests permits.
C24_RollingWindow ==
    IsRateLimit(last) =>
        Len(PermittedRecently(last)) <= PolicyOf(last).maxRequests

----------------------------------------------------------------------------
(* The rate limiter in front of the login *)

\* in this step slot r takes up a login request
StartsLogin(r) == req[r].pc = "idle" /\ req'[r].route = "login"

\* the limiter has counted the request of r beyond the quota of its client
OverQuota(local, store) ==
    Val(store[rateLimitKey(local.forwarded)]).count
        > RATE_LIMITS_AUTH.maxRequests

\* C25: a login the rate limiter denies is answered by the limiter at once:
\* no user record changes (loginAttempts, lockUntil, refreshTokens), no
\* token is generated or sent, whether the password was right or wrong.
C25_LimiterFirst ==
    [][\A r \in Reqs :
          StartsLogin(r) /\ OverQuota(req'[r], rateLimitStore') =>
              /\ req'[r].pc = "done"
              /\ req'[r].resp.code = "RateLimitError"
              /\ ~IssuesTokens(req'[r].resp)
              /\ UNCHANGED <<users, nextToken>>]_vars

\* the limiter has denied a login that carried the right password of an
\* account that is not locked
C25_Witness ==
    \E r \in Reqs :
        /\ req[r].pc = "done" /\ req[r].route = "login"
        /\ req[r].resp.code = "RateLimitError"
        /\ CorrectPassword(r)
        /\ ~isLocked(users[UserOf(r)], now)

----------------------------------------------------------------------------
(* The sweep of the rate-limit store *)

\* the step is a run of the sweep
SweepStep == rateLimitStore' # rateLimitStore /\ last' = last

\* the window stored for the key is over
Elapsed(store, key, t) == IsSet(store[key]) /\ t > Val(store[key]).resetTime

\* the sweep removes the elapsed entries and no other
SweepExact ==
    \A k \in RateKeys :
        rateLimitStore'[k] = IF Elapsed(rateLimitStore, k, now)
                             THEN Undefined ELSE rateLimitStore[k]

\* the request is decided, and its entry stored, as the windows counted
\* without regard to any sweep have it
DecidedAsUnswept(key) ==
    LET window == Val(WindowsOf(last')[key])
        config == PolicyOf(last')
    IN /\ rateLimitStore'[key] =
              Some([count |-> window.n, resetTime |-> window.resetTime])
       /\ last'.invoked <=> window.n <= config.maxRequests
       /\ ~last'.invoked =>
              /\ last'.response.code = "RateLimitError"
              /\ RetryAfterOf(last') = Ceil(window.resetTime - now, 1000)

\* C26: the sweep removes exactly the entries whose window has elapsed and
\* leaves every other entry unchanged, and each request gets the permit or
\* deny decision and the retry time it gets when no sweep ever runs.
C26_SweepTransparent ==
    [][/\ SweepStep => SweepExact
       /\ \A key \in RateKeys : RateLimitStep(key) => DecidedAsUnswept(key)
      ]_vars

\* a sweep has removed the elapsed entry of one key, and a request of
\* another key whose earlier window was full has been decided since that
\* entry elapsed
C26_Witness ==
    /\ IsRateLimit(last)
    /\ last.input.key # <<>>
    /\ WindowOf(last).n = 1
    /\ WindowOf(last).before >= PolicyOf(last).maxRequests
    /\ \E k \in RateKeys \ {last.input.key} :
          /\ IsSet(WindowsOf(last)[k])
          /\ ~IsSet(rateLimitStore[k])
          /\ last.at > Val(WindowsOf(last)[k]).resetTime

----------------------------------------------------------------------------
(* DELETE /api/issues/:id *)

DeleteRoutes == {"DELETE /api/issues/:id", "DELETE /api/issues/:id (2)"}

\* the last call asked an authenticated caller's delete of an issue that was
\* stored and not deleted
DeleteOfStored(call) ==
    /\ call.fn \in DeleteRoutes
    /\ call.invoked
    /\ call.before.exists /\ ~IsSet(call.before.deletedAt)

\* C27: a DELETE /api/issues/:id of an existing, not deleted issue by an
\* authenticated ADMIN soft-deletes it and appends one DELETED entry; by a
\* USER or MANAGER it is answered 403, the issue stays undeleted and no
\* entry is written.
C27_AdminOnlyDelete ==
    DeleteOfStored(last) =>
        IF Caller(last).role = "ADMIN"
        THEN /\ last.response.success
             /\ IsSet(issues[last.id].deletedAt)
             /\ last.written = 1
             /\ auditLogs[Len(auditLogs)].action = "DELETED"
             /\ auditLogs[Len(auditLogs)].issueId = last.id
        ELSE /\ last.response.status = 403
             /\ issues[last.id] = last.before
             /\ last.written = 0

----------------------------------------------------------------------------
(* Logins on a locked account *)

\* in this step the login of slot r gets the account it names from the store
ReadsAccount(r) ==
    req[r].pc = "find" /\ req[r].route = "login" /\ req'[r].pc # "find"

\* the stored account carries a lockUntil that is in the future
LockedNow(email) ==
    /\ email \in Emails
    /\ users[email].exists
    /\ IsSet(users[email].lockUntil)
    /\ Val(users[email].lockUntil) > now

\* C28: a login that finds its account locked is rejected there, before
\* the password is compared, and the user record stays as it is: no count
\* added, lockUntil not moved, no refresh token stored, whether the
\* password was right or wrong.
C28_LockedLoginFrame ==
    [][\A r \in Reqs :
          ReadsAccount(r) /\ LockedNow(req[r].email) =>
              /\ req'[r].pc = "done"
              /\ req'[r].resp.code = "ACCOUNT_LOCKED"
              /\ ~IsSet(req'[r].checkedAt)
              /\ ~IssuesTokens(req'[r].resp)
              /\ UNCHANGED <<users, nextToken, failStreak>>]_vars

\* a login with a wrong password has been rejected as locked
C28_Witness ==
    \E r \in Reqs :
        /\ req[r].pc = "done" /\ req[r].route = "login"
        /\ req[r].resp.code = "ACCOUNT_LOCKED"
        /\ ~CorrectPassword(r)
        /\ LockedNow(req[r].email)

----------------------------------------------------------------------------
(* What a failed login tells about the account *)

\* the answer to a login that names no account
InvalidCredentials ==
    errorResponse(AuthenticationError("Invalid email or password"))

Registered(email) == email \in Emails /\ users[email].exists

\* in this step the handler of slot r returns with the response
Answers(r, response) == req'[r].pc = "done" /\ req'[r].resp = response

\* slot r is a login past the rate limiter and the validation, at step pc
LoginAt(r, pc) ==
    req[r].route = "login" /\ req[r].pc = pc /\ req'[r].pc # pc

\* C29: a login for an email with no user record and a login with a wrong
\* password for an existing, unlocked, active account get the same response
\* (status, code, message, nothing else); the first changes no stored
\* state, the second changes the account's record.
C29_NoEnumeration ==
    [][\A r \in Reqs :
          /\ (LoginAt(r, "find") /\ ~Registered(req[r].email)) =>
                /\ Answers(r, InvalidCredentials)
                /\ UNCHANGED <<users, nextToken>>
          /\ ( /\ LoginAt(r, "find")
               /\ Registered(req[r].email)
               /\ ~LockedNow(req[r].email)
               /\ users[req[r].email].isActive ) =>
                req'[r].pc = "compare"
          /\ ( /\ LoginAt(r, "compare")
               /\ ~ComparePassword(req[r].body.password,
                                   req[r].doc.password) ) =>
                req'[r].pc = "increment"
          /\ LoginAt(r, "increment") =>
                /\ Answers(r, InvalidCredentials)
                /\ users'[req[r].email] # users[req[r].email]
                /\ UNCHANGED nextToken]_vars

\* a login for an unknown email and a login with a wrong password for a
\* registered account have both been answered, with equal responses
C29_Witness ==
    \E r, q \in Reqs :
        /\ req[r].pc = "done" /\ req[r].route = "login"
        /\ req[q].pc = "done" /\ req[q].route = "login"
        /\ IsEmail(req[r].body.email) /\ ~Registered(UserOf(r))
        /\ Registered(UserOf(q)) /\ FailedPassword(q)
        /\ req[r].resp = req[q].resp
        /\ req[r].resp.code = "AuthenticationError"

----------------------------------------------------------------------------
(* What a rotation writes *)

\* in this step the refresh of slot r is answered with success
RefreshSucceeds(r) ==
    /\ req[r].pc = "save" /\ req[r].route = "refresh"
    /\ req'[r].pc = "done" /\ req'[r].resp.success

Entries(tokens) == {tokens[i] : i \in 1..Len(tokens)}

\* C30: a successful refresh with token T removes from the owner's stored
\* set the entry of T and entries that have expired, nothing else; it adds
\* one entry, that of the new token; and it leaves every other user's
\* record as it was.
C30_RotationFrame ==
    [][\A r \in Reqs : RefreshSucceeds(r) =>
          LET owner == req[r].email
              presented == hashRefreshToken(Val(req[r].cookie))
              before == Entries(users[owner].refreshTokens)
              after == Entries(users'[owner].refreshTokens)
          IN /\ \A e \in before :
                   e \notin after => e.token = presented \/ e.expiresAt <= now
             /\ \A e \in after : e.token # presented
             /\ \E new \in after :
                   /\ new.token = hashRefreshToken(Val(req[r].newToken))
                   /\ after \ before = {new}
             /\ \A other \in Emails \ {owner} : users'[other] = users[other]
      ]_vars

====
